---- MODULE Spec2Model ----
EXTENDS Integers, Sequences, FiniteSets, TLC

(***************************************************************************)
(* Client-side graph editor: the graph model, its mutation operations, the *)
(* snapshot history (undo/redo) and the hierarchy layer constraint.        *)
(*                                                                         *)
(* JavaScript objects are modelled on a heap: nodeObj and linkObj map an   *)
(* address to the fields of a node or link object, and every array or      *)
(* variable that holds an object holds its address.  A value that may be   *)
(* undefined is a sequence of length 0 or 1.                               *)
(***************************************************************************)

\* ------------------------------------------------------------------ bounds
\* captured operations in one editing session
MaxOps == 2
\* captured operations in a session on a graph of either type
MaxOpsAny == 1
\* edges in a graph handed to a function on its own
MaxLinks == 3
\* iterations asked of pageRank
MaxIter == 2
\* captured operations in a session with few kinds of operations
MaxOpsDeep == 3
\* the largest layer typed into the layer field
MaxLayer == 2

\* ids the user types or the server sends
Ids == {"a", "b", "c"}
\* the id field of the edit panel; "" is an empty input field
IdInputs == {"", "b", "c"}
\* label and description typed together in the add / edit panels
Texts == {<<"L", "D">>}
\* the id field of the add panel: empty, the id of a loaded node, a fresh id
AddInputs == {"", "a", "c"}
\* source, target and weight fields of the edge panel; the weight is empty,
\* not a number ("x") or a number
EdgeInputs ==
  {<<"a", "b", "2">>, <<"a", "b", "x">>, <<"b", "a", "">>, <<"a", "c", "">>,
   <<"a", "a", "">>, <<"", "b", "">>}
\* source and target fields when Remove edge is pressed
RemoveInputs == {<<"a", "b">>, <<"b", "a">>, <<"", "a">>}
\* the layer field after parseInt: NaN, or an integer
LayerInputs == {<<>>} \cup {<<L>> : L \in 1..MaxLayer}
\* pointer positions in graph coordinates
PointerPos == {<<100, 300>>}
ClickPos == {<<160, 180>>}
CanvasSizes == {[width |-> 400, height |-> 320]}
\* the order localeCompare gives the modelled ids
IdOrder == <<"a", "b", "c">>
\* the search box: empty, or a text that is part of the label "L"
SearchInputs == {"", "l"}

\* ------------------------------------------------------------ JS values
None == <<>>
Some(v) == <<v>>
isFinite(o) == o # None
Val(o) == o[1]
Max2(a, b) == IF a >= b THEN a ELSE b
Min2(a, b) == IF a <= b THEN a ELSE b
MinOf(S) == CHOOSE m \in S : \A k \in S : m <= k
Greatest(S) == CHOOSE m \in S : \A k \in S : m >= k
Front(q) == SubSeq(q, 1, Len(q) - 1)
Last(q) == q[Len(q)]
\* Math.round(num / den) for den > 0
Round(num, den) == (2 * num + den) \div (2 * den)
\* Number(wStr) for the modelled weight inputs; None is NaN
NumberOf(w) == IF w = "2" THEN Some(2) ELSE IF w = "" THEN Some(0) ELSE None

VARIABLES
  nodeObj,               \* heap of node objects, address -> fields
  linkObj,               \* heap of link objects, address -> fields
  graph,                 \* graph.nodes / graph.links (addresses), type, title
  undoStack, redoStack,  \* snapshots: arrays of addresses, type, title
  selectedNode,          \* address of the selected node object, 0 = null
  selectedIds,           \* Set of selected ids
  pendingNodePlacement,  \* None or Some([id, label, description])
  dragSubject,           \* the node object d3 holds for the running gesture
  dragGroup,             \* None (null) or Some(array of node addresses)
  lastPointerDown,       \* where the pointer went down, graph coordinates
  dragMoved,             \* the pointer moved since pointerdown
  layerState,            \* cached hierarchy geometry
  canvas,                \* canvas size in css pixels: [width, height]
  alert,                 \* message of the alert the last handler raised, "" if none
  request,               \* the GET of the graph in flight: None once answered, else Some(response)
  saveBtn,               \* the Save button: [disabled]
  Graphs,                \* server: the stored graph document, None when there is none
  awaiting,              \* the handlers suspended at an await and the callbacks that wait for their frame
  drawQueued,            \* a draw has been requested for the next animation frame
  drawFn,                \* the function that draws: None (null) until render.js is imported
  probe,                 \* observer: the result of the last call or request that was watched
  gesture,               \* observer: the graph when the watched gesture began, and whether it moved
  lastCall,              \* observer: the handler call of the last step if it captured, else None
  opCount,               \* observer: operations captured since the load
  opLimit,               \* observer: the session is followed up to this many captures
  timeline, cursor       \* observer: graph values along the history, current position

vars == <<nodeObj, linkObj, graph, undoStack, redoStack, selectedNode, selectedIds,
          pendingNodePlacement, dragSubject, dragGroup, lastPointerDown, dragMoved,
          layerState, canvas, alert, request, saveBtn, Graphs, awaiting, drawQueued, drawFn,
          probe, gesture, lastCall, opCount, opLimit, timeline, cursor>>

State ==
  [nodeObj |-> nodeObj, linkObj |-> linkObj, graph |-> graph,
   undoStack |-> undoStack, redoStack |-> redoStack,
   selectedNode |-> selectedNode, selectedIds |-> selectedIds,
   pendingNodePlacement |-> pendingNodePlacement,
   dragSubject |-> dragSubject, dragGroup |-> dragGroup,
   lastPointerDown |-> lastPointerDown, dragMoved |-> dragMoved,
   layerState |-> layerState, canvas |-> canvas,
   alert |-> "", captures |-> 0]

\* a node object; the gesture bookkeeping fields are absent until a drag starts
NewNode(id, label, description, x, y) ==
  [id |-> id, label |-> label, description |-> description,
   x |-> Some(x), y |-> Some(y), layer |-> None,
   fx |-> None, fy |-> None, vx |-> None, vy |-> None,
   _dragOff |-> None, _startLayer |-> None, _captured |-> None]

NewLink(s, t, w) == [source |-> s, target |-> t, weight |-> w]

\* --------------------------------------------------------- reading the graph
LiveNodes(s) == [i \in 1..Len(s.graph.nodes) |-> s.nodeObj[s.graph.nodes[i]]]
LiveLinks(s) == [i \in 1..Len(s.graph.links) |-> s.linkObj[s.graph.links[i]]]

\* the content of a graph-shaped record g (the live graph or a snapshot)
ValueOf(s, g) ==
  [nodes |-> [i \in 1..Len(g.nodes) |-> s.nodeObj[g.nodes[i]]],
   links |-> [i \in 1..Len(g.links) |-> s.linkObj[g.links[i]]],
   type |-> g.type, title |-> g.title]

GraphValue(s) == ValueOf(s, s.graph)

hasId(s, id) == \E i \in 1..Len(s.graph.nodes) : s.nodeObj[s.graph.nodes[i]].id = id

\* graph.nodes.find(n => n.id === id): Some(first match) or None
getNodeById(s, id) ==
  LET hits == {i \in 1..Len(s.graph.nodes) : s.nodeObj[s.graph.nodes[i]].id = id}
  IN IF hits = {} THEN None ELSE Some(s.nodeObj[s.graph.nodes[MinOf(hits)]])

\* ----------------------------------------------------- hierarchy validation
validateHierarchyEdge(sNode, tNode) ==
  LET sL == IF sNode = None THEN None ELSE Val(sNode).layer
      tL == IF tNode = None THEN None ELSE Val(tNode).layer
  IN IF ~isFinite(sL) \/ ~isFinite(tL)
       THEN [ok |-> FALSE, msg |-> "Both nodes must have a valid integer layer."]
     ELSE IF Val(sL) = Val(tL)
       THEN [ok |-> FALSE, msg |-> "No same layer edges allowed in hierarchy."]
     ELSE IF Val(sL) >= Val(tL)
       THEN [ok |-> FALSE, msg |-> "Edges must go downward (source layer < target layer)."]
     ELSE [ok |-> TRUE, msg |-> ""]

RECURSIVE validateLinksFrom(_, _, _, _)
validateLinksFrom(s, node, L, i) ==
  IF i > Len(s.graph.links) THEN [ok |-> TRUE, msg |-> ""]
  ELSE LET e == s.linkObj[s.graph.links[i]]
           sNode == IF e.source = node.id THEN Some([node EXCEPT !.layer = Some(L)])
                    ELSE getNodeById(s, e.source)
           tNode == IF e.target = node.id THEN Some([node EXCEPT !.layer = Some(L)])
                    ELSE getNodeById(s, e.target)
       IN IF sNode = None \/ tNode = None THEN validateLinksFrom(s, node, L, i + 1)
          ELSE LET v == validateHierarchyEdge(sNode, tNode)
               IN IF ~v.ok THEN v ELSE validateLinksFrom(s, node, L, i + 1)

\* newLayer is None when it is not a finite number
validateLayerChange(s, node, newLayer) ==
  IF ~isFinite(newLayer) \/ Val(newLayer) < 1
    THEN [ok |-> FALSE, msg |-> "Layer must be a positive integer."]
  ELSE validateLinksFrom(s, node, Val(newLayer), 1)

findEdgeIndexByIds(s, src, dst) ==
  LET hits == {i \in 1..Len(s.graph.links) :
                 /\ s.linkObj[s.graph.links[i]].source = src
                 /\ s.linkObj[s.graph.links[i]].target = dst}
  IN IF hits = {} THEN 0 ELSE MinOf(hits)

\* the scan from the front of the list, which keeps the first edge of a pair
dedupeLinksKeepFirst(s) ==
  LET ls == s.graph.links
      k(i) == s.linkObj[ls[i]].source \o "->" \o s.linkObj[ls[i]].target
      RECURSIVE scan(_, _, _)
      scan(i, seen, kept) ==
        IF i > Len(ls) THEN kept
        ELSE IF k(i) \in seen THEN scan(i + 1, seen, kept)
        ELSE scan(i + 1, seen \cup {k(i)}, kept \o <<ls[i]>>)
  IN [s EXCEPT !.graph.links = scan(1, {}, <<>>)]

\* the list is scanned from its end with the set of the keys `${s}->${t}` seen
\* so far; an edge whose key was seen is spliced out
dedupeLinksInPlace(s) ==
  LET ls == s.graph.links
      k(i) == s.linkObj[ls[i]].source \o "->" \o s.linkObj[ls[i]].target
      RECURSIVE scan(_, _, _)
      scan(i, seen, kept) ==
        IF i = 0 THEN kept
        ELSE IF k(i) \in seen THEN scan(i - 1, seen, kept)
        ELSE scan(i - 1, seen \cup {k(i)}, <<ls[i]>> \o kept)
  IN [s EXCEPT !.graph.links = scan(Len(ls), {}, <<>>)]

\* the edges csvOneFileToGraph returns for the edge rows it has read: the same
\* scan over the list of the import
csvOneFileToGraph(links) ==
  LET k(i) == links[i].source \o "->" \o links[i].target
      RECURSIVE scan(_, _, _)
      scan(i, seen, kept) ==
        IF i = 0 THEN kept
        ELSE IF k(i) \in seen THEN scan(i - 1, seen, kept)
        ELSE scan(i - 1, seen \cup {k(i)}, <<links[i]>> \o kept)
  IN scan(Len(links), {}, <<>>)

\* ------------------------------------------------------------------ history
\* the mutant copies the arrays only: the snapshot shares the node and link objects
_cloneShallow(s) ==
  [nodeObj |-> s.nodeObj, linkObj |-> s.linkObj,
   snap |-> [nodes |-> s.graph.nodes, links |-> s.graph.links,
             type |-> s.graph.type, title |-> s.graph.title]]

\* a deep copy of the graph: every node and link object is copied to a new address
_clone(s) ==
  LET g == s.graph
      nn == Len(s.nodeObj)
      nl == Len(s.linkObj)
  IN [nodeObj |-> s.nodeObj \o [i \in 1..Len(g.nodes) |-> s.nodeObj[g.nodes[i]]],
      linkObj |-> s.linkObj \o [i \in 1..Len(g.links) |-> s.linkObj[g.links[i]]],
      snap |-> [nodes |-> [i \in 1..Len(g.nodes) |-> nn + i],
                links |-> [i \in 1..Len(g.links) |-> nl + i],
                type |-> g.type, title |-> g.title]]

\* the mutant keeps the redo stack
historyCaptureKeepsRedo(s) ==
  LET c == _clone(s)
  IN [s EXCEPT !.nodeObj = c.nodeObj, !.linkObj = c.linkObj,
               !.undoStack = Append(@, c.snap), !.captures = @ + 1]

historyCapture(s) ==
  LET c == _clone(s)
  IN [s EXCEPT !.nodeObj = c.nodeObj, !.linkObj = c.linkObj,
               !.undoStack = Append(@, c.snap), !.redoStack = <<>>,
               !.captures = @ + 1]

\* the mutant restores the nodes and leaves the links
_applySnapshotNodesOnly(s, snap) ==
  [s EXCEPT !.graph.nodes = snap.nodes]

\* the snapshot's objects become the live ones; "" is the falsy type, title uses ??
_applySnapshot(s, snap) ==
  [s EXCEPT !.graph = [nodes |-> snap.nodes, links |-> snap.links,
                       type |-> IF snap.type # "" THEN snap.type ELSE s.graph.type,
                       title |-> snap.title]]

undo(s) ==
  IF Len(s.undoStack) = 0 THEN s
  ELSE LET c == _clone(s)
           s1 == [s EXCEPT !.nodeObj = c.nodeObj, !.linkObj = c.linkObj,
                           !.redoStack = Append(@, c.snap)]
           prev == Last(s1.undoStack)
       IN _applySnapshot([s1 EXCEPT !.undoStack = Front(@)], prev)

redo(s) ==
  IF Len(s.redoStack) = 0 THEN s
  ELSE LET c == _clone(s)
           s1 == [s EXCEPT !.nodeObj = c.nodeObj, !.linkObj = c.linkObj,
                           !.undoStack = Append(@, c.snap)]
           next == Last(s1.redoStack)
       IN _applySnapshot([s1 EXCEPT !.redoStack = Front(@)], next)

\* ------------------------------------------------------------------- layout
TOP_PAD == 40
MIN_YGAP == 80
MAX_YGAP == 140
SIDE_PAD == 40
MIN_XGAP == 60
GridGap == 40

\* layerState as the module is loaded
layerState0 == [enabled |-> FALSE, startY |-> 40, gapY |-> 100, Lmax |-> 1]

\* the largest finite layer among graph.nodes, at least 1
maxLayerOf(s) ==
  LET Ls == {Val(LiveNodes(s)[i].layer) : i \in {j \in 1..Len(s.graph.nodes) : isFinite(LiveNodes(s)[j].layer)}}
  IN IF Ls = {} THEN 1 ELSE Max2(1, CHOOSE m \in Ls : \A k \in Ls : m >= k)

\* the mutant leaves the gap as the division gives it
gapYForUnclamped(rows, height) ==
  LET availableH == Max2(1, height - TOP_PAD * 2)
  IN IF rows > 1 THEN availableH \div (rows - 1) ELSE availableH

\* gapY for a number of rows: availableH / (rows - 1) clamped to [MIN_YGAP, MAX_YGAP]
gapYFor(rows, height) ==
  LET availableH == Max2(1, height - TOP_PAD * 2)
      raw == IF rows > 1 THEN availableH \div (rows - 1) ELSE availableH
  IN Max2(MIN_YGAP, Min2(MAX_YGAP, raw))

ensureLayerState(s) ==
  IF s.layerState.enabled THEN s
  ELSE LET rows == Max2(1, maxLayerOf(s))
       IN [s EXCEPT !.layerState = [enabled |-> TRUE, startY |-> TOP_PAD,
                                    gapY |-> gapYFor(rows, s.canvas.height), Lmax |-> rows]]

\* the value yForLayer returns once ensureLayerState has run
yForLayer(s, L) ==
  LET e == ensureLayerState(s)
  IN e.layerState.startY + (Max2(1, L) - 1) * e.layerState.gapY

\* snapNodeToLayer on the node object at address a
snapNodeToLayer(s, a, L) ==
  LET e == ensureLayerState(s)
      Lint == Max2(1, L)
      e1 == IF Lint > e.layerState.Lmax THEN [e EXCEPT !.layerState.Lmax = Lint] ELSE e
  IN [e1 EXCEPT !.nodeObj[a].layer = Some(Lint), !.nodeObj[a].y = Some(yForLayer(e1, Lint))]

allHavePositions(s) ==
  /\ Len(s.graph.nodes) > 0
  /\ \A i \in 1..Len(s.graph.nodes) : isFinite(LiveNodes(s)[i].x) /\ isFinite(LiveNodes(s)[i].y)

pinToCurrentXY(s) ==
  LET live == {s.graph.nodes[i] : i \in 1..Len(s.graph.nodes)}
      pin(n) == IF isFinite(n.x) /\ isFinite(n.y) THEN [n EXCEPT !.fx = n.x, !.fy = n.y] ELSE n
  IN [s EXCEPT !.nodeObj = [a \in DOMAIN s.nodeObj |-> IF a \in live THEN pin(s.nodeObj[a]) ELSE s.nodeObj[a]]]

zeroVelocities(s) ==
  LET live == {s.graph.nodes[i] : i \in 1..Len(s.graph.nodes)}
  IN [s EXCEPT !.nodeObj = [a \in DOMAIN s.nodeObj |->
        IF a \in live THEN [s.nodeObj[a] EXCEPT !.vx = Some(0), !.vy = Some(0)] ELSE s.nodeObj[a]]]

\* cos and sin of 2*pi*i/N in thousandths, for N up to 4
UnitCircle(i, N) ==
  IF N = 1 THEN <<1000, 0>>
  ELSE IF N = 2 THEN <<<<1000, 0>>, <<-1000, 0>>>>[i + 1]
  ELSE IF N = 3 THEN <<<<1000, 0>>, <<-500, 866>>, <<-500, -866>>>>[i + 1]
  ELSE <<<<1000, 0>>, <<0, 1000>>, <<-1000, 0>>, <<0, -1000>>>>[(i % 4) + 1]

\* place node i on a circle of radius ratio/100 * min(width, height)
circlePos(s, i, ratio) ==
  LET N == Max2(1, Len(s.graph.nodes))
      R == (Min2(s.canvas.width, s.canvas.height) * ratio) \div 100
      u == UnitCircle(i - 1, N)
  IN <<s.canvas.width \div 2 + (R * u[1]) \div 1000, s.canvas.height \div 2 + (R * u[2]) \div 1000>>

\* the object of every node of graph.nodes at index i is replaced by f(i, object)
mapLive(s, f(_, _)) ==
  LET idxOf(a) == MinOf({i \in 1..Len(s.graph.nodes) : s.graph.nodes[i] = a})
      live == {s.graph.nodes[i] : i \in 1..Len(s.graph.nodes)}
  IN [s EXCEPT !.nodeObj = [a \in DOMAIN s.nodeObj |->
        IF a \in live THEN f(idxOf(a), s.nodeObj[a]) ELSE s.nodeObj[a]]]

\* the mutant seeds a node only when it has neither x nor y
seedPositionsLackingBoth(s) ==
  LET seed(i, n) == IF ~isFinite(n.x) /\ ~isFinite(n.y)
                      THEN [n EXCEPT !.x = Some(circlePos(s, i, 38)[1]), !.y = Some(circlePos(s, i, 38)[2])]
                    ELSE n
  IN mapLive(s, seed)

seedPositions(s) ==
  LET seed(i, n) == IF ~isFinite(n.x) \/ ~isFinite(n.y)
                      THEN [n EXCEPT !.x = Some(circlePos(s, i, 38)[1]), !.y = Some(circlePos(s, i, 38)[2])]
                    ELSE n
  IN mapLive(s, seed)

layoutCircle(s) ==
  LET put(i, n) == LET p == circlePos(s, i, 40)
                   IN [n EXCEPT !.x = Some(p[1]), !.y = Some(p[2]), !.fx = Some(p[1]), !.fy = Some(p[2])]
  IN mapLive(s, put)

\* the least c with c * c >= n
ceilSqrt(n) == MinOf({c \in 0..n : c * c >= n})

layoutGrid(s) ==
  LET cols == ceilSqrt(IF Len(s.graph.nodes) = 0 THEN 1 ELSE Len(s.graph.nodes))
      startX == (s.canvas.width * 1) \div 2 - ((cols - 1) * GridGap) \div 2
      startY == (s.canvas.height * 1) \div 2 - ((cols - 1) * GridGap) \div 2
      put(i, n) == LET x == startX + ((i - 1) % cols) * GridGap
                       y == startY + ((i - 1) \div cols) * GridGap
                   IN [n EXCEPT !.x = Some(x), !.y = Some(y), !.fx = Some(x), !.fy = Some(y)]
  IN mapLive(s, put)

\* ----------------------------------------------------- hierarchy layering
\* position of an id in the order localeCompare gives
idRank(id) == MinOf({i \in 1..Len(IdOrder) : IdOrder[i] = id} \cup {Len(IdOrder) + 1})

RECURSIVE relaxOutSameLayer(_, _, _, _)
\* the inner loop with a successor put on the layer of u, not on the next one
relaxOutSameLayer(st, vs, k, L) ==
  IF k > Len(vs) THEN st
  ELSE LET v == vs[k]
           lv == IF isFinite(st.layer[v]) THEN Val(st.layer[v]) ELSE 1
           d == st.indeg[v] - 1
       IN relaxOutSameLayer([layer |-> [st.layer EXCEPT ![v] = Some(Max2(lv, L))],
                             indeg |-> [st.indeg EXCEPT ![v] = d],
                             q |-> IF d = 0 THEN Append(st.q, v) ELSE st.q],
                            vs, k + 1, L)

RECURSIVE relaxOutQueuesEarly(_, _, _, _)
\* the inner loop with a successor queued at every edge that reaches it
relaxOutQueuesEarly(st, vs, k, L) ==
  IF k > Len(vs) THEN st
  ELSE LET v == vs[k]
           lv == IF isFinite(st.layer[v]) THEN Val(st.layer[v]) ELSE 1
           d == st.indeg[v] - 1
       IN relaxOutQueuesEarly([layer |-> [st.layer EXCEPT ![v] = Some(Max2(lv, L + 1))],
                               indeg |-> [st.indeg EXCEPT ![v] = d],
                               q |-> IF d >= 0 THEN Append(st.q, v) ELSE st.q],
                              vs, k + 1, L)

RECURSIVE relaxOut(_, _, _, _)
\* the inner loop of the Kahn propagation over out.get(u), from index k
relaxOut(st, vs, k, L) ==
  IF k > Len(vs) THEN st
  ELSE LET v == vs[k]
           lv == IF isFinite(st.layer[v]) THEN Val(st.layer[v]) ELSE 1
           d == st.indeg[v] - 1
       IN relaxOut([layer |-> [st.layer EXCEPT ![v] = Some(Max2(lv, L + 1))],
                    indeg |-> [st.indeg EXCEPT ![v] = d],
                    q |-> IF d = 0 THEN Append(st.q, v) ELSE st.q],
                   vs, k + 1, L)

RECURSIVE kahnLoop(_, _)
kahnLoop(st, out) ==
  IF Len(st.q) = 0 THEN st
  ELSE LET u == Head(st.q)
           L == IF isFinite(st.layer[u]) THEN Val(st.layer[u]) ELSE 1
       IN kahnLoop(relaxOut([st EXCEPT !.q = Tail(@)], out[u], 1, L), out)

RECURSIVE kahnShifted(_, _)
\* the ids q.shift() returns in the rounds of that loop, in their order
kahnShifted(st, out) ==
  IF Len(st.q) = 0 THEN <<>>
  ELSE LET u == Head(st.q)
           L == IF isFinite(st.layer[u]) THEN Val(st.layer[u]) ELSE 1
       IN <<u>> \o kahnShifted(relaxOut([st EXCEPT !.q = Tail(@)], out[u], 1, L), out)

RECURSIVE cycleFallback(_, _, _, _)
\* nodes the propagation never reached: one below the deepest layered predecessor
cycleFallback(layer, ids, preds, k) ==
  IF k > Len(ids) THEN layer
  ELSE IF isFinite(layer[ids[k]]) THEN cycleFallback(layer, ids, preds, k + 1)
  ELSE LET ps == preds[ids[k]]
           vals == {IF isFinite(layer[ps[j]]) THEN Val(layer[ps[j]]) ELSE 0 : j \in 1..Len(ps)} \cup {0}
           maxPred == CHOOSE m \in vals : \A x \in vals : m >= x
       IN cycleFallback([layer EXCEPT ![ids[k]] = Some(Max2(1, maxPred + 1))], ids, preds, k + 1)

\* the layer computeHierarchyLayers writes to each id, for node and link values
hierarchyLayers(nodes, links) ==
  LET idSet == {nodes[i].id : i \in 1..Len(nodes)}
      ids == [i \in 1..Len(nodes) |-> nodes[i].id]
      used == SelectSeq(links, LAMBDA e : e.source \in idSet /\ e.target \in idSet)
      out == [id \in idSet |->
                LET es == SelectSeq(used, LAMBDA e : e.source = id)
                IN [j \in 1..Len(es) |-> es[j].target]]
      preds == [id \in idSet |->
                LET es == SelectSeq(used, LAMBDA e : e.target = id)
                IN [j \in 1..Len(es) |-> es[j].source]]
      indeg == [id \in idSet |-> Len(preds[id])]
      firstAt(i) == \A j \in 1..(i - 1) : ids[j] # ids[i]
      RECURSIVE roots(_)
      roots(i) == IF i > Len(ids) THEN <<>>
                  ELSE (IF firstAt(i) /\ indeg[ids[i]] = 0 THEN <<ids[i]>> ELSE <<>>) \o roots(i + 1)
      st0 == [layer |-> [id \in idSet |-> IF indeg[id] = 0 THEN Some(1) ELSE None],
              indeg |-> indeg, q |-> roots(1)]
      st1 == kahnLoop(st0, out)
  IN cycleFallback(st1.layer, ids, preds, 1)

\* the ids that leave the queue while computeHierarchyLayers runs on these
\* nodes and links, in their order
shiftedIds(nodes, links) ==
  LET idSet == {nodes[i].id : i \in 1..Len(nodes)}
      ids == [i \in 1..Len(nodes) |-> nodes[i].id]
      used == SelectSeq(links, LAMBDA e : e.source \in idSet /\ e.target \in idSet)
      out == [id \in idSet |->
                LET es == SelectSeq(used, LAMBDA e : e.source = id)
                IN [j \in 1..Len(es) |-> es[j].target]]
      indeg == [id \in idSet |-> Len(SelectSeq(used, LAMBDA e : e.target = id))]
      firstAt(i) == \A j \in 1..(i - 1) : ids[j] # ids[i]
      RECURSIVE roots(_)
      roots(i) == IF i > Len(ids) THEN <<>>
                  ELSE (IF firstAt(i) /\ indeg[ids[i]] = 0 THEN <<ids[i]>> ELSE <<>>) \o roots(i + 1)
  IN kahnShifted([layer |-> [id \in idSet |-> IF indeg[id] = 0 THEN Some(1) ELSE None],
                  indeg |-> indeg, q |-> roots(1)], out)

computeHierarchyLayers(s) ==
  LET layer == hierarchyLayers(LiveNodes(s), LiveLinks(s))
      put(i, n) == [n EXCEPT !.layer = Some(Max2(1, Val(layer[n.id])))]
  IN mapLive(s, put)

layoutHierarchy(s) ==
  LET needs == \E i \in 1..Len(s.graph.nodes) : ~isFinite(LiveNodes(s)[i].layer)
      s1 == IF needs THEN computeHierarchyLayers(s) ELSE s
      rows == Max2(1, maxLayerOf(s1))
      gapY == gapYFor(rows, s1.canvas.height)
      s2 == [s1 EXCEPT !.layerState = [enabled |-> TRUE, startY |-> TOP_PAD, gapY |-> gapY, Lmax |-> rows]]
      nodes == LiveNodes(s2)
      layerAt(n) == Max2(1, IF isFinite(n.layer) THEN Val(n.layer) ELSE 1)
      \* the bucket of a layer, sorted by id; ties keep the list order
      before(i, j) == \/ idRank(nodes[i].id) < idRank(nodes[j].id)
                      \/ idRank(nodes[i].id) = idRank(nodes[j].id) /\ i < j
      rankIn(i) == Cardinality({j \in 1..Len(nodes) : layerAt(nodes[j]) = layerAt(nodes[i]) /\ before(j, i)})
      count(i) == Cardinality({j \in 1..Len(nodes) : layerAt(nodes[j]) = layerAt(nodes[i])})
      startX(i) == Max2(SIDE_PAD, (s2.canvas.width - (count(i) - 1) * MIN_XGAP) \div 2)
      put(i, n) == [n EXCEPT !.x = IF isFinite(n.x) THEN n.x ELSE Some(startX(i) + rankIn(i) * MIN_XGAP),
                             !.y = Some(TOP_PAD + (layerAt(n) - 1) * gapY),
                             !.layer = Some(layerAt(n))]
  IN mapLive(s2, put)

\* the mutant lays a circle or grid graph out again whether or not positions are saved
applyLayoutForTypeAlways(s) ==
  LET t == s.graph.type
      hasSaved == allHavePositions(s)
      s1 == IF hasSaved /\ t # "hierarchy" THEN pinToCurrentXY(s) ELSE s
  IN CASE t = "force" -> zeroVelocities(IF ~hasSaved THEN pinToCurrentXY(seedPositions(s1)) ELSE s1)
       [] t = "circle" -> layoutCircle(s1)
       [] t = "grid" -> layoutGrid(s1)
       [] t = "hierarchy" -> layoutHierarchy(s1)
       [] OTHER -> s1

applyLayoutForType(s) ==
  LET t == s.graph.type
      hasSaved == allHavePositions(s)
      s1 == IF hasSaved /\ t # "hierarchy" THEN pinToCurrentXY(s) ELSE s
  IN CASE t = "force" -> zeroVelocities(IF ~hasSaved THEN pinToCurrentXY(seedPositions(s1)) ELSE s1)
       [] t = "circle" -> IF ~hasSaved THEN layoutCircle(s1) ELSE s1
       [] t = "grid" -> IF ~hasSaved THEN layoutGrid(s1) ELSE s1
       [] t = "hierarchy" -> layoutHierarchy(s1)
       [] OTHER -> s1

\* ------------------------------------------------------- mutation operations
NODE_R == 5

Alert(s, msg) == [s EXCEPT !.alert = msg]

setSelectedNode(s, a) == [s EXCEPT !.selectedNode = a]

setSelection(s, ids) == [s EXCEPT !.selectedIds = ids]

startAddNodePlacement(s, id, label, description) ==
  IF id = "" THEN Alert(s, "Enter a new node id")
  ELSE IF hasId(s, id) THEN Alert(s, "Node id already exists")
  ELSE [s EXCEPT !.pendingNodePlacement = Some([id |-> id, label |-> label, description |-> description])]

onCanvasPointerDownToPlace(s, pos) ==
  IF s.pendingNodePlacement = None THEN s
  ELSE LET p == Val(s.pendingNodePlacement)
           a == Len(s.nodeObj) + 1
           s1 == [s EXCEPT !.nodeObj = Append(@, NewNode(p.id, p.label, p.description, pos[1], pos[2]))]
           s2 == IF s1.graph.type = "hierarchy" THEN snapNodeToLayer(s1, a, 1) ELSE s1
           s3 == historyCapture(s2)
       IN setSelectedNode([s3 EXCEPT !.graph.nodes = Append(@, a),
                                     !.pendingNodePlacement = None], a)

onKeyDownCancelPlacement(s) == [s EXCEPT !.pendingNodePlacement = None]

\* the loop of onApplyEdit over graph.links: link objects are rewritten in place
renameInLinks(s, oldId, newIdVal) ==
  LET live == {s.graph.links[i] : i \in 1..Len(s.graph.links)}
      fix(e) == [e EXCEPT !.source = IF @ = oldId THEN newIdVal ELSE @,
                          !.target = IF @ = oldId THEN newIdVal ELSE @]
  IN [s EXCEPT !.linkObj = [a \in DOMAIN s.linkObj |-> IF a \in live THEN fix(s.linkObj[a]) ELSE s.linkObj[a]]]

\* onApplyEdit once the inputs are accepted: the capture, the field writes and
\* the rewrite of the links
editFields(s, newIdVal, newLabelVal, newDescVal) ==
  LET sel == s.selectedNode
      oldId == s.nodeObj[sel].id
      s1 == historyCapture(s)
      s2 == [s1 EXCEPT !.nodeObj[sel].id = newIdVal,
                       !.nodeObj[sel].label = newLabelVal,
                       !.nodeObj[sel].description = newDescVal]
  IN renameInLinks(s2, oldId, newIdVal)

\* a layer change that validateLayerChange accepts; the mutant applies it unasked
editLayerUnchecked(s, Lraw) ==
  LET sel == s.selectedNode
      wants == /\ s.graph.type = "hierarchy"
               /\ isFinite(Lraw) /\ Val(Lraw) >= 1 /\ Lraw # s.nodeObj[sel].layer
      v == validateLayerChange(s, s.nodeObj[sel], Lraw)
  IN IF ~wants THEN s
     ELSE IF ~v.ok THEN Alert(snapNodeToLayer(s, sel, Val(Lraw)), v.msg)
     ELSE snapNodeToLayer(s, sel, Val(Lraw))

\* the layer part of onApplyEdit: a rejected layer blocks only the layer change
editLayer(s, Lraw) ==
  LET sel == s.selectedNode
      wants == /\ s.graph.type = "hierarchy"
               /\ isFinite(Lraw) /\ Val(Lraw) >= 1 /\ Lraw # s.nodeObj[sel].layer
      v == validateLayerChange(s, s.nodeObj[sel], Lraw)
  IN IF ~wants THEN s
     ELSE IF ~v.ok THEN Alert(s, v.msg)
     ELSE snapNodeToLayer(s, sel, Val(Lraw))

\* the mutant checks for a duplicate id after the fields are written
onApplyEditChecksLate(s, newIdVal, newLabelVal, newDescVal, Lraw) ==
  IF s.selectedNode = 0 THEN Alert(s, "Select a node first")
  ELSE LET sel == s.selectedNode
           oldId == s.nodeObj[sel].id
       IN IF newIdVal = "" THEN Alert(s, "ID cannot be empty")
          ELSE IF newIdVal # oldId /\ hasId(s, newIdVal)
            THEN Alert(renameInLinks([s EXCEPT !.nodeObj[sel].id = newIdVal], oldId, newIdVal),
                       "Another node already has that id")
          ELSE editLayer(editFields(s, newIdVal, newLabelVal, newDescVal), Lraw)

onApplyEdit(s, newIdVal, newLabelVal, newDescVal, Lraw) ==
  IF s.selectedNode = 0 THEN Alert(s, "Select a node first")
  ELSE LET sel == s.selectedNode
           oldId == s.nodeObj[sel].id
       IN IF newIdVal = "" THEN Alert(s, "ID cannot be empty")
          ELSE IF newIdVal # oldId /\ hasId(s, newIdVal) THEN Alert(s, "Another node already has that id")
          ELSE editLayer(editFields(s, newIdVal, newLabelVal, newDescVal), Lraw)

onDeleteNode(s) ==
  IF s.selectedNode = 0 THEN Alert(s, "Select a node first")
  ELSE LET sel == s.selectedNode
           id == s.nodeObj[sel].id
           s1 == historyCapture(s)
           s2 == [s1 EXCEPT !.graph.nodes = SelectSeq(@, LAMBDA a : a # sel),
                            !.graph.links = SelectSeq(@, LAMBDA a :
                                 s1.linkObj[a].source # id /\ s1.linkObj[a].target # id)]
       IN applyLayoutForType(setSelectedNode(s2, 0))

\* the handler without the hierarchy direction check
onAddOrUpdateEdgeAnyDirection(s, src, dst, wStr) ==
  LET sNode == getNodeById(s, src)
      tNode == getNodeById(s, dst)
      isForce == s.graph.type = "force"
      idx == findEdgeIndexByIds(s, src, dst)
      newW == NumberOf(wStr)
      v == validateHierarchyEdge(sNode, tNode)
  IN IF src = "" \/ dst = "" THEN Alert(s, "Enter source and target ids")
     ELSE IF src = dst THEN Alert(s, "Source and target must differ")
     ELSE IF ~hasId(s, src) \/ ~hasId(s, dst) THEN Alert(s, "Both source and target must exist")
     ELSE IF idx # 0
       THEN IF ~isForce THEN s
            ELSE IF wStr = "" THEN s
            ELSE IF newW = None THEN Alert(s, "Weight must be a number")
            ELSE LET s1 == historyCapture(s)
                     a == Len(s1.linkObj) + 1
                 IN dedupeLinksInPlace(
                      [s1 EXCEPT !.linkObj = Append(@, NewLink(src, dst, newW)),
                                 !.graph.links = [@ EXCEPT ![idx] = a]])
     ELSE IF isForce /\ wStr # "" /\ newW = None THEN Alert(s, "Weight must be a number")
     ELSE LET s1 == historyCapture(s)
              a == Len(s1.linkObj) + 1
              w == IF isForce /\ wStr # "" THEN newW ELSE None
          IN dedupeLinksInPlace(
               [s1 EXCEPT !.linkObj = Append(@, NewLink(src, dst, w)),
                          !.graph.links = Append(@, a)])

\* the handler reading the weight field in a graph of any type
onAddOrUpdateEdgeAnyType(s, src, dst, wStr) ==
  LET sNode == getNodeById(s, src)
      tNode == getNodeById(s, dst)
      isForce == TRUE
      idx == findEdgeIndexByIds(s, src, dst)
      newW == NumberOf(wStr)
      v == validateHierarchyEdge(sNode, tNode)
  IN IF src = "" \/ dst = "" THEN Alert(s, "Enter source and target ids")
     ELSE IF src = dst THEN Alert(s, "Source and target must differ")
     ELSE IF ~hasId(s, src) \/ ~hasId(s, dst) THEN Alert(s, "Both source and target must exist")
     ELSE IF s.graph.type = "hierarchy" /\ ~v.ok THEN Alert(s, v.msg)
     ELSE IF idx # 0
       THEN IF ~isForce THEN s
            ELSE IF wStr = "" THEN s
            ELSE IF newW = None THEN Alert(s, "Weight must be a number")
            ELSE LET s1 == historyCapture(s)
                     a == Len(s1.linkObj) + 1
                 IN dedupeLinksInPlace(
                      [s1 EXCEPT !.linkObj = Append(@, NewLink(src, dst, newW)),
                                 !.graph.links = [@ EXCEPT ![idx] = a]])
     ELSE IF isForce /\ wStr # "" /\ newW = None THEN Alert(s, "Weight must be a number")
     ELSE LET s1 == historyCapture(s)
              a == Len(s1.linkObj) + 1
              w == IF isForce /\ wStr # "" THEN newW ELSE None
          IN dedupeLinksInPlace(
               [s1 EXCEPT !.linkObj = Append(@, NewLink(src, dst, w)),
                          !.graph.links = Append(@, a)])

\* the handler with a weight update that appends the edge anew
onAddOrUpdateEdgeReappends(s, src, dst, wStr) ==
  LET sNode == getNodeById(s, src)
      tNode == getNodeById(s, dst)
      isForce == s.graph.type = "force"
      idx == findEdgeIndexByIds(s, src, dst)
      newW == NumberOf(wStr)
      v == validateHierarchyEdge(sNode, tNode)
  IN IF src = "" \/ dst = "" THEN Alert(s, "Enter source and target ids")
     ELSE IF src = dst THEN Alert(s, "Source and target must differ")
     ELSE IF ~hasId(s, src) \/ ~hasId(s, dst) THEN Alert(s, "Both source and target must exist")
     ELSE IF s.graph.type = "hierarchy" /\ ~v.ok THEN Alert(s, v.msg)
     ELSE IF idx # 0
       THEN IF ~isForce THEN s
            ELSE IF wStr = "" THEN s
            ELSE IF newW = None THEN Alert(s, "Weight must be a number")
            ELSE LET s1 == historyCapture(s)
                     a == Len(s1.linkObj) + 1
                 IN dedupeLinksInPlace(
                      [s1 EXCEPT !.linkObj = Append(@, NewLink(src, dst, newW)),
                                 !.graph.links = Append(@, a)])
     ELSE IF isForce /\ wStr # "" /\ newW = None THEN Alert(s, "Weight must be a number")
     ELSE LET s1 == historyCapture(s)
              a == Len(s1.linkObj) + 1
              w == IF isForce /\ wStr # "" THEN newW ELSE None
          IN dedupeLinksInPlace(
               [s1 EXCEPT !.linkObj = Append(@, NewLink(src, dst, w)),
                          !.graph.links = Append(@, a)])

onAddOrUpdateEdge(s, src, dst, wStr) ==
  LET sNode == getNodeById(s, src)
      tNode == getNodeById(s, dst)
      isForce == s.graph.type = "force"
      idx == findEdgeIndexByIds(s, src, dst)
      newW == NumberOf(wStr)
      v == validateHierarchyEdge(sNode, tNode)
  IN IF src = "" \/ dst = "" THEN Alert(s, "Enter source and target ids")
     ELSE IF src = dst THEN Alert(s, "Source and target must differ")
     ELSE IF ~hasId(s, src) \/ ~hasId(s, dst) THEN Alert(s, "Both source and target must exist")
     ELSE IF s.graph.type = "hierarchy" /\ ~v.ok THEN Alert(s, v.msg)
     ELSE IF idx # 0
       THEN IF ~isForce THEN s
            ELSE IF wStr = "" THEN s
            ELSE IF newW = None THEN Alert(s, "Weight must be a number")
            ELSE LET s1 == historyCapture(s)
                     a == Len(s1.linkObj) + 1
                 IN dedupeLinksInPlace(
                      [s1 EXCEPT !.linkObj = Append(@, NewLink(src, dst, newW)),
                                 !.graph.links = [@ EXCEPT ![idx] = a]])
     ELSE IF isForce /\ wStr # "" /\ newW = None THEN Alert(s, "Weight must be a number")
     ELSE LET s1 == historyCapture(s)
              a == Len(s1.linkObj) + 1
              w == IF isForce /\ wStr # "" THEN newW ELSE None
          IN dedupeLinksInPlace(
               [s1 EXCEPT !.linkObj = Append(@, NewLink(src, dst, w)),
                          !.graph.links = Append(@, a)])

onRemoveEdge(s, src, dst) ==
  LET idx == findEdgeIndexByIds(s, src, dst)
  IN IF src = "" \/ dst = "" THEN Alert(s, "Enter source and target ids")
     ELSE IF idx = 0 THEN Alert(s, "No edge (source,target) found")
     ELSE LET s1 == historyCapture(s)
          IN [s1 EXCEPT !.graph.links = SubSeq(@, 1, idx - 1) \o SubSeq(@, idx + 1, Len(@))]

\* --------------------------------------------------------------- interaction
xOr0(n) == IF isFinite(n.x) THEN Val(n.x) ELSE 0
yOr0(n) == IF isFinite(n.y) THEN Val(n.y) ELSE 0

\* the address of the nearest node of graph.nodes within the hit radius, 0 if none
findNodeAt(s, pos) ==
  LET d2(i) == LET n == LiveNodes(s)[i]
               IN (pos[1] - xOr0(n)) * (pos[1] - xOr0(n)) + (pos[2] - yOr0(n)) * (pos[2] - yOr0(n))
      inHit == {i \in 1..Len(s.graph.nodes) : d2(i) < (NODE_R + 6) * (NODE_R + 6)}
      best == {i \in inHit : \A j \in inHit : d2(i) < d2(j) \/ (d2(i) = d2(j) /\ i <= j)}
  IN IF inHit = {} THEN 0 ELSE s.graph.nodes[CHOOSE i \in best : TRUE]

\* the pointerup listener: a click selects the node under the pointer or clears
onPointerUp(s, pos) ==
  LET hit == findNodeAt(s, pos)
  IN IF hit # 0 THEN setSelection(setSelectedNode(s, hit), {s.nodeObj[hit].id})
     ELSE setSelection(setSelectedNode(s, 0), {})

\* n is the node under the pointer, pos the pointer in graph coordinates
dragstarted(s, n, pos) ==
  LET s1 == setSelectedNode(s, n)
      inSel == s1.selectedIds # {} /\ s1.nodeObj[n].id \in s1.selectedIds
      group == IF inSel THEN SelectSeq(s1.graph.nodes, LAMBDA a : s1.nodeObj[a].id \in s1.selectedIds)
               ELSE <<n>>
      s2 == IF inSel THEN s1 ELSE setSelection(s1, {s1.nodeObj[n].id})
      members == {group[i] : i \in 1..Len(group)}
      mark(g) == [g EXCEPT !._dragOff = Some([dx |-> xOr0(g) - pos[1], dy |-> yOr0(g) - pos[2]]),
                           !._startLayer = Some(Max2(1, IF isFinite(g.layer) THEN Val(g.layer) ELSE 1))]
      s3 == [s2 EXCEPT !.nodeObj = [a \in DOMAIN s2.nodeObj |->
                                      IF a \in members THEN mark(s2.nodeObj[a]) ELSE s2.nodeObj[a]]]
  IN [s3 EXCEPT !.nodeObj[n]._captured = Some(FALSE),
                !.dragSubject = n, !.dragGroup = Some(group),
                !.lastPointerDown = pos, !.dragMoved = FALSE]

\* the handler with a capture for every node of the dragged group
draggedCapturesPerNode(s, pos) ==
  LET n == s.dragSubject
      group == IF s.dragGroup = None THEN <<n>> ELSE Val(s.dragGroup)
      RECURSIVE captureTimes(_, _)
      captureTimes(st, k) == IF k = 0 THEN st ELSE captureTimes(historyCapture(st), k - 1)
      s1 == IF s.nodeObj[n]._captured # Some(TRUE)
              THEN [captureTimes(s, Len(group)) EXCEPT !.nodeObj[n]._captured = Some(TRUE)]
            ELSE s
      members == {group[i] : i \in 1..Len(group)}
      move(g) == LET dx == IF isFinite(g._dragOff) THEN Val(g._dragOff).dx ELSE 0
                     dy == IF isFinite(g._dragOff) THEN Val(g._dragOff).dy ELSE 0
                 IN [g EXCEPT !.x = Some(pos[1] + dx), !.y = Some(pos[2] + dy)]
  IN [s1 EXCEPT !.nodeObj = [a \in DOMAIN s1.nodeObj |->
                               IF a \in members THEN move(s1.nodeObj[a]) ELSE s1.nodeObj[a]],
                !.dragMoved = TRUE]

dragged(s, pos) ==
  LET n == s.dragSubject
      s1 == IF s.nodeObj[n]._captured # Some(TRUE)
              THEN [historyCapture(s) EXCEPT !.nodeObj[n]._captured = Some(TRUE)]
            ELSE s
      group == IF s1.dragGroup = None THEN <<n>> ELSE Val(s1.dragGroup)
      members == {group[i] : i \in 1..Len(group)}
      move(g) == LET dx == IF isFinite(g._dragOff) THEN Val(g._dragOff).dx ELSE 0
                     dy == IF isFinite(g._dragOff) THEN Val(g._dragOff).dy ELSE 0
                 IN [g EXCEPT !.x = Some(pos[1] + dx), !.y = Some(pos[2] + dy)]
  IN [s1 EXCEPT !.nodeObj = [a \in DOMAIN s1.nodeObj |->
                               IF a \in members THEN move(s1.nodeObj[a]) ELSE s1.nodeObj[a]],
                !.dragMoved = TRUE]

RECURSIVE settleGroup(_, _, _, _, _)
\* the loop of dragended over the group in a hierarchy graph, from index k
settleGroup(s, group, k, startY, gapY) ==
  IF k > Len(group) THEN s
  ELSE LET a == group[k]
           g == s.nodeObj[a]
           nearest == Max2(1, Round(Val(g.y) - startY, gapY) + 1)
           start == Val(g._startLayer)
           v == validateLayerChange(s, g, Some(nearest))
           s1 == IF nearest # start
                   THEN IF v.ok THEN snapNodeToLayer(s, a, nearest)
                        ELSE [ensureLayerState(s) EXCEPT !.nodeObj[a].layer = Some(start),
                                                         !.nodeObj[a].y = Some(yForLayer(s, start))]
                 ELSE [ensureLayerState(s) EXCEPT !.nodeObj[a].y = Some(yForLayer(s, start))]
       IN settleGroup(s1, group, k + 1, startY, gapY)

dragended(s) ==
  LET n == s.dragSubject
      group == IF s.dragGroup = None THEN <<n>> ELSE Val(s.dragGroup)
      members == {group[i] : i \in 1..Len(group)}
      s1 == IF s.graph.type = "hierarchy"
              THEN settleGroup(s, group, 1, s.layerState.startY, s.layerState.gapY)
            ELSE s
      clean(a, g) == [g EXCEPT !._dragOff = IF a \in members THEN None ELSE @,
                               !._startLayer = IF a \in members THEN None ELSE @,
                               !._captured = IF a = n THEN None ELSE @]
  IN [s1 EXCEPT !.nodeObj = [a \in DOMAIN s1.nodeObj |-> clean(a, s1.nodeObj[a])],
                !.dragSubject = 0, !.dragGroup = None]

\* String(n.id).toLowerCase().includes(q), or the same of the label, for the modelled strings
searchHit(n, q) == n.id = q \/ (q = "l" /\ n.label = "L")

runSearch(s, q) ==
  LET matches == SelectSeq(s.graph.nodes, LAMBDA a : searchHit(s.nodeObj[a], q))
  IN IF q = "" \/ Len(matches) = 0 THEN setSelectedNode(setSelection(s, {}), 0)
     ELSE setSelectedNode(setSelection(s, {s.nodeObj[matches[i]].id : i \in 1..Len(matches)}), matches[1])

\* ------------------------------------------------------------ heap addresses
\* Objects no variable reaches are dropped and the rest renumbered in the order
\* they are reached, so that states with the same object graph coincide.
RECURSIVE concatNodes(_, _)
concatNodes(stack, i) == IF i > Len(stack) THEN <<>> ELSE stack[i].nodes \o concatNodes(stack, i + 1)

RECURSIVE concatLinks(_, _)
concatLinks(stack, i) == IF i > Len(stack) THEN <<>> ELSE stack[i].links \o concatLinks(stack, i + 1)

RECURSIVE uniqFrom(_, _)
uniqFrom(q, i) ==
  IF i > Len(q) THEN <<>>
  ELSE (IF \E j \in 1..(i - 1) : q[j] = q[i] THEN <<>> ELSE <<q[i]>>) \o uniqFrom(q, i + 1)

Canon(r) ==
  LET nOrder == uniqFrom(r.graph.nodes \o concatNodes(r.undoStack, 1) \o concatNodes(r.redoStack, 1)
                         \o (IF r.selectedNode # 0 THEN <<r.selectedNode>> ELSE <<>>)
                         \o (IF r.dragSubject # 0 THEN <<r.dragSubject>> ELSE <<>>)
                         \o (IF r.dragGroup # None THEN Val(r.dragGroup) ELSE <<>>), 1)
      lOrder == uniqFrom(r.graph.links \o concatLinks(r.undoStack, 1) \o concatLinks(r.redoStack, 1), 1)
      nAt(a) == IF a = 0 THEN 0 ELSE CHOOSE i \in 1..Len(nOrder) : nOrder[i] = a
      lAt(a) == CHOOSE i \in 1..Len(lOrder) : lOrder[i] = a
      mapG(g) == [nodes |-> [i \in 1..Len(g.nodes) |-> nAt(g.nodes[i])],
                  links |-> [i \in 1..Len(g.links) |-> lAt(g.links[i])],
                  type |-> g.type, title |-> g.title]
  IN [r EXCEPT !.nodeObj = [i \in 1..Len(nOrder) |-> r.nodeObj[nOrder[i]]],
               !.linkObj = [i \in 1..Len(lOrder) |-> r.linkObj[lOrder[i]]],
               !.graph = mapG(@),
               !.undoStack = [i \in 1..Len(@) |-> mapG(@[i])],
               !.redoStack = [i \in 1..Len(@) |-> mapG(@[i])],
               !.selectedNode = nAt(@),
               !.dragSubject = nAt(@),
               !.dragGroup = IF @ = None THEN None ELSE Some([i \in 1..Len(Val(@)) |-> nAt(Val(@)[i])])]

\* ------------------------------------------------------------------ loading
\* graphs as the server returns them: saved positions, and layers for a hierarchy
SavedNode(id, x, y, layer) == [NewNode(id, "L", "", x, y) EXCEPT !.layer = layer]

LoadedGraphs ==
  {[nodes |-> <<SavedNode("a", 100, 40, None), SavedNode("b", 100, 180, None)>>,
    links |-> <<NewLink("a", "b", None)>>, type |-> "force", title |-> "T"],
   [nodes |-> <<SavedNode("a", 100, 40, Some(1)), SavedNode("b", 100, 180, Some(2))>>,
    links |-> <<NewLink("a", "b", None)>>, type |-> "hierarchy", title |-> "T"]}

\* the module state with the graph set from the loaded data
graphFromData(data, size) ==
  [nodeObj |-> data.nodes, linkObj |-> data.links,
   graph |-> [nodes |-> [i \in 1..Len(data.nodes) |-> i],
              links |-> [i \in 1..Len(data.links) |-> i],
              type |-> data.type, title |-> data.title],
   undoStack |-> <<>>, redoStack |-> <<>>,
   selectedNode |-> 0, selectedIds |-> {},
   pendingNodePlacement |-> None,
   dragSubject |-> 0, dragGroup |-> None,
   lastPointerDown |-> <<0, 0>>, dragMoved |-> FALSE,
   layerState |-> layerState0, canvas |-> size,
   alert |-> "", captures |-> 0]

\* the graph object as the state module creates it
NoData == [nodes |-> <<>>, links |-> <<>>, type |-> "force", title |-> ""]

\* the page when init() has wired the handlers and waits for the response
beforeLoad(size) == graphFromData(NoData, size)

\* a node of the tiny default graph: an id and nothing else
BareNode(id) == [NewNode(id, "", "", 0, 0) EXCEPT !.x = None, !.y = None]

\* init() from the response on: graph.nodes, links, type and title are set from
\* the data (new objects, new arrays), the links deduped, an empty graph replaced
\* by the default one, the layout applied and 'initial' captured.  The links of
\* the data hold ids, which normalizeLinks leaves alone.
loaded(s, data) ==
  LET nn == Len(s.nodeObj)
      nl == Len(s.linkObj)
      s1 == [s EXCEPT !.nodeObj = @ \o data.nodes,
                      !.linkObj = @ \o data.links,
                      !.graph = [nodes |-> [i \in 1..Len(data.nodes) |-> nn + i],
                                 links |-> [i \in 1..Len(data.links) |-> nl + i],
                                 type |-> IF data.type = "" THEN "force" ELSE data.type,
                                 title |-> data.title]]
      s2 == dedupeLinksInPlace(s1)
      n2 == Len(s2.nodeObj)
      l2 == Len(s2.linkObj)
      s3 == IF Len(s2.graph.nodes) = 0 /\ Len(s2.graph.links) = 0
              THEN [s2 EXCEPT !.nodeObj = @ \o <<BareNode("A"), BareNode("B"), BareNode("C")>>,
                              !.linkObj = @ \o <<NewLink("A", "B", None), NewLink("B", "C", None)>>,
                              !.graph.nodes = <<n2 + 1, n2 + 2, n2 + 3>>,
                              !.graph.links = <<l2 + 1, l2 + 2>>]
            ELSE s2
  IN historyCapture(applyLayoutForType(s3))

\* init() on a page where nothing happened before the response came
init(data, size) == loaded(beforeLoad(size), data)

\* ------------------------------------------------------------------ actions
Install(r) ==
  /\ nodeObj' = r.nodeObj
  /\ linkObj' = r.linkObj
  /\ graph' = r.graph
  /\ undoStack' = r.undoStack
  /\ redoStack' = r.redoStack
  /\ selectedNode' = r.selectedNode
  /\ selectedIds' = r.selectedIds
  /\ pendingNodePlacement' = r.pendingNodePlacement
  /\ dragSubject' = r.dragSubject
  /\ dragGroup' = r.dragGroup
  /\ lastPointerDown' = r.lastPointerDown
  /\ dragMoved' = r.dragMoved
  /\ layerState' = r.layerState
  /\ canvas' = r.canvas
  /\ alert' = r.alert

\* observer: a handler that captured starts a new entry after the current one,
\* any other handler leaves its result in the current entry
Observe(r) ==
  IF r.captures > 0
    THEN /\ timeline' = SubSeq(timeline, 1, cursor) \o [k \in 1..r.captures |-> GraphValue(r)]
         /\ cursor' = cursor + r.captures
  ELSE /\ timeline' = [timeline EXCEPT ![cursor] = GraphValue(r)]
       /\ cursor' = cursor

\* the code of the page ran from the state of the step to the state r
Ran(call, r) ==
  /\ (opCount < opLimit \/ r.captures = 0)
  /\ opLimit' = opLimit
  /\ Install(Canon(r))
  /\ probe' = probe
  /\ lastCall' = IF r.captures > 0 THEN Some(call) ELSE None
  /\ opCount' = opCount + r.captures
  /\ Observe(r)
  /\ UNCHANGED <<Graphs, awaiting, drawQueued, drawFn>>

\* the handler call ran to completion with result r
Handler(call, r) ==
  /\ Ran(call, r)
  /\ gesture' = None
  /\ UNCHANGED <<request, saveBtn>>

\* no gesture is running and no alert is open (alert() blocks until dismissed)
Idle == dragSubject = 0 /\ alert = ""

Loaded(r) ==
  /\ nodeObj = r.nodeObj
  /\ linkObj = r.linkObj
  /\ graph = r.graph
  /\ undoStack = r.undoStack
  /\ redoStack = r.redoStack
  /\ selectedNode = r.selectedNode
  /\ selectedIds = r.selectedIds
  /\ pendingNodePlacement = r.pendingNodePlacement
  /\ dragSubject = r.dragSubject
  /\ dragGroup = r.dragGroup
  /\ lastPointerDown = r.lastPointerDown
  /\ dragMoved = r.dragMoved
  /\ layerState = r.layerState
  /\ canvas = r.canvas
  /\ alert = r.alert

\* the response has come, the Save button is enabled, no gesture is watched
Answered == request = None /\ saveBtn = [disabled |-> FALSE] /\ gesture = None

\* the specification does not follow the server
NoServer == Graphs = None /\ awaiting = <<>>

\* no draw is requested and render.js is not imported yet; the specifications
\* of the handlers do not follow the frames
NoFrames == drawQueued = FALSE /\ drawFn = None

\* the page has loaded one of the graphs and run init()
Start(graphs, limit) ==
  /\ \E data \in graphs, size \in CanvasSizes : Loaded(Canon(init(data, size)))
  /\ Answered
  /\ NoServer
  /\ NoFrames
  /\ opLimit = limit
  /\ probe = None
  /\ lastCall = None
  /\ opCount = 0
  /\ timeline = <<GraphValue(State), GraphValue(State)>>
  /\ cursor = 2

Init == Start({g \in LoadedGraphs : g.type = "hierarchy"}, MaxOps)

\* Handlers run when the page is Idle.  p says whether the user also presses
\* buttons and keys while a node placement is pending; otherwise the user who
\* started a placement next clicks the canvas or presses Escape.
Ready(p) == Idle /\ (p \/ pendingNodePlacement = None)

StartAddNode(p) ==
  /\ Ready(p)
  /\ \E id \in AddInputs, t \in Texts :
       Handler(<<"startAddNodePlacement", id, t>>, startAddNodePlacement(State, id, t[1], t[2]))

PlaceNode ==
  /\ Idle
  /\ pendingNodePlacement # None
  /\ \E pos \in ClickPos : Handler(<<"onCanvasPointerDownToPlace", pos>>, onCanvasPointerDownToPlace(State, pos))

CancelPlacement ==
  /\ Idle
  /\ pendingNodePlacement # None
  /\ Handler(<<"onKeyDownCancelPlacement">>, onKeyDownCancelPlacement(State))

\* Apply in the edit panel with the fields id, t (label, description) and layer L
EditWith(id, t, L) == Handler(<<"onApplyEdit", id, t, L>>, onApplyEdit(State, id, t[1], t[2], L))

ApplyEdit(p) ==
  /\ Ready(p)
  /\ \E id \in IdInputs, t \in Texts, L \in LayerInputs : EditWith(id, t, L)

DeleteNode(p) ==
  /\ Ready(p)
  /\ Handler(<<"onDeleteNode">>, onDeleteNode(State))

AddOrUpdateEdge ==
  /\ Ready(FALSE)
  /\ \E e \in EdgeInputs :
       Handler(<<"onAddOrUpdateEdge", e>>, onAddOrUpdateEdge(State, e[1], e[2], e[3]))

RemoveEdge ==
  /\ Ready(FALSE)
  /\ \E e \in RemoveInputs :
       Handler(<<"onRemoveEdge", e>>, onRemoveEdge(State, e[1], e[2]))

\* the pointer goes down on a node: d3 starts a gesture with the node under it
DragStart ==
  /\ Ready(FALSE)
  /\ \E i \in 1..Len(graph.nodes) :
       LET n == nodeObj[graph.nodes[i]]
           pos == <<xOr0(n), yOr0(n)>>
       IN Handler(<<"dragstarted", pos>>, dragstarted(State, findNodeAt(State, pos), pos))

Dragged ==
  /\ dragSubject # 0
  /\ \E pos \in PointerPos : Handler(<<"dragged", pos>>, dragged(State, pos))

\* lastPointerDown and the moved flag are dead once the gesture is over
forgetPointer(s) == [s EXCEPT !.lastPointerDown = <<0, 0>>, !.dragMoved = FALSE]

\* the pointer goes up: the pointerup listener sees a click when it did not move,
\* then d3 ends the gesture
DragEnd ==
  /\ dragSubject # 0
  /\ Handler(<<"dragended">>,
             forgetPointer(dragended(IF dragMoved THEN State ELSE onPointerUp(State, lastPointerDown))))

\* a click on the empty canvas
ClickEmpty ==
  /\ Ready(FALSE)
  /\ \E pos \in PointerPos :
       /\ findNodeAt(State, pos) = 0
       /\ Handler(<<"pointerup", pos>>, onPointerUp(State, pos))

Search ==
  /\ Ready(FALSE)
  /\ \E q \in SearchInputs : Handler(<<"runSearch", q>>, runSearch(State, q))

\* the user closes the alert
Dismiss ==
  /\ alert # ""
  /\ alert' = ""
  /\ lastCall' = None
  /\ gesture' = None
  /\ UNCHANGED <<nodeObj, linkObj, graph, undoStack, redoStack, selectedNode, selectedIds,
                 pendingNodePlacement, dragSubject, dragGroup, lastPointerDown, dragMoved,
                 layerState, canvas, probe, opCount, opLimit, timeline, cursor,
                 request, saveBtn, Graphs, awaiting, drawQueued, drawFn>>

Undo(p) ==
  /\ Ready(p)
  /\ request = None
  /\ Install(Canon(undo(State)))
  /\ probe' = probe
  /\ lastCall' = None
  /\ gesture' = None
  /\ opCount' = opCount
  /\ opLimit' = opLimit
  /\ timeline' = timeline
  /\ cursor' = IF cursor > 1 THEN cursor - 1 ELSE cursor
  /\ UNCHANGED <<request, saveBtn, Graphs, awaiting, drawQueued, drawFn>>

Redo(p) ==
  /\ Ready(p)
  /\ request = None
  /\ Install(Canon(redo(State)))
  /\ probe' = probe
  /\ lastCall' = None
  /\ gesture' = None
  /\ opCount' = opCount
  /\ opLimit' = opLimit
  /\ timeline' = timeline
  /\ cursor' = IF cursor < Len(timeline) THEN cursor + 1 ELSE cursor
  /\ UNCHANGED <<request, saveBtn, Graphs, awaiting, drawQueued, drawFn>>

\* the response to the GET of the graph comes and init() runs on from its
\* await, between two events of the page
Load ==
  /\ request # None
  /\ alert = ""
  /\ Ran(<<"init">>, loaded(State, Val(request).data))
  /\ request' = None
  /\ saveBtn' = IF Val(request).access = "viewer" THEN [disabled |-> TRUE] ELSE saveBtn
  /\ gesture' = gesture

\* ------------------------------------------------------------ specifications
\* an editing session on a loaded hierarchy graph
Next ==
  \/ StartAddNode(FALSE)
  \/ PlaceNode
  \/ CancelPlacement
  \/ ApplyEdit(FALSE)
  \/ DeleteNode(FALSE)
  \/ AddOrUpdateEdge
  \/ RemoveEdge
  \/ DragStart
  \/ Dragged
  \/ DragEnd
  \/ ClickEmpty
  \/ Undo(FALSE)
  \/ Redo(FALSE)
  \/ Dismiss

Spec == Init /\ [][Next]_vars

\* a session on a loaded force graph with node operations of every kind while
\* a placement is pending
NextPlacement ==
  \/ StartAddNode(TRUE)
  \/ PlaceNode
  \/ CancelPlacement
  \/ ApplyEdit(TRUE)
  \/ DeleteNode(TRUE)
  \/ DragStart
  \/ DragEnd
  \/ Undo(TRUE)
  \/ Redo(TRUE)
  \/ Dismiss

InitPlacement == Start({g \in LoadedGraphs : g.type = "force"}, MaxOps)

SpecPlacement == InitPlacement /\ [][NextPlacement]_vars

\* an editing session on a loaded force graph
SpecForce == InitPlacement /\ [][Next]_vars

\* a short session on a graph of either type
InitAny == Start(LoadedGraphs, MaxOpsAny)

SpecAny == InitAny /\ [][Next]_vars

\* every gesture of the page, the search box among them
NextGestures ==
  \/ Next
  \/ Search

SpecGestures == InitAny /\ [][NextGestures]_vars

\* edge operations, after new nodes or not, on a graph of either type
\* a force graph as a CSV import can make it: the import checks that the
\* endpoints of an edge are nodes, not that they differ
SelfLoopGraph ==
  [nodes |-> <<SavedNode("a", 100, 40, None), SavedNode("b", 100, 180, None)>>,
   links |-> <<NewLink("a", "a", None), NewLink("a", "b", None)>>,
   type |-> "force", title |-> "T"]

InitEdges == Start(LoadedGraphs \cup {SelfLoopGraph}, MaxOpsDeep)

NextEdges ==
  \/ StartAddNode(FALSE)
  \/ PlaceNode
  \/ CancelPlacement
  \/ AddOrUpdateEdge
  \/ RemoveEdge
  \/ Undo(FALSE)
  \/ Redo(FALSE)
  \/ Dismiss

SpecEdges == InitEdges /\ [][NextEdges]_vars

\* renames and new edges on a force graph, between undos
InitRename == Start({g \in LoadedGraphs : g.type = "force"}, MaxOpsDeep)

NextRename ==
  \/ DragStart
  \/ DragEnd
  \/ ApplyEdit(FALSE)
  \/ AddOrUpdateEdge
  \/ Undo(FALSE)
  \/ Redo(FALSE)
  \/ Dismiss

SpecRename == InitRename /\ [][NextRename]_vars

\* the page from the moment init() has sent the GET of the graph: the handlers
\* are wired, the response is in flight
LoadResponses == {[data |-> g, access |-> a] : g \in LoadedGraphs, a \in {"owner", "viewer"}}

Loading(responses, limit) ==
  /\ \E size \in CanvasSizes : Loaded(beforeLoad(size))
  /\ request \in {Some(r) : r \in responses}
  /\ saveBtn = [disabled |-> FALSE]
  /\ gesture = None
  /\ NoServer
  /\ NoFrames
  /\ opLimit = limit
  /\ probe = None
  /\ lastCall = None
  /\ opCount = 0
  /\ timeline = <<GraphValue(State)>>
  /\ cursor = 1

InitLoading == Loading(LoadResponses, MaxOps)

NextLoading ==
  \/ Load
  \/ Next

SpecLoading == InitLoading /\ [][NextLoading]_vars
\* graphs of the four types as the server returns them when positions were
\* never saved, saved for some nodes only, or saved for all
Unplaced(id) == [SavedNode(id, 0, 0, None) EXCEPT !.x = None, !.y = None]

XOnly(id, x) == [SavedNode(id, x, 0, None) EXCEPT !.y = None]

LayoutGraphs ==
  {[nodes |-> <<SavedNode("a", 100, 40, None), XOnly("b", 100)>>,
    links |-> <<NewLink("a", "b", None)>>, type |-> "force", title |-> "T"],
   [nodes |-> <<Unplaced("a")>>, links |-> <<>>, type |-> "force", title |-> "T"],
   [nodes |-> <<Unplaced("a"), Unplaced("b")>>,
    links |-> <<NewLink("a", "b", None)>>, type |-> "circle", title |-> "T"],
   [nodes |-> <<SavedNode("a", 100, 40, None), SavedNode("b", 100, 180, None)>>,
    links |-> <<NewLink("a", "b", None)>>, type |-> "circle", title |-> "T"],
   [nodes |-> <<SavedNode("a", 100, 40, None), Unplaced("b")>>,
    links |-> <<NewLink("a", "b", None)>>, type |-> "grid", title |-> "T"],
   [nodes |-> <<SavedNode("a", 100, 40, None), SavedNode("b", 100, 180, None)>>,
    links |-> <<NewLink("a", "b", None)>>, type |-> "grid", title |-> "T"],
   [nodes |-> <<XOnly("a", 100), Unplaced("b")>>,
    links |-> <<NewLink("a", "b", None)>>, type |-> "hierarchy", title |-> "T"]}

\* the load of one of them and a short session around it
InitLayouts == Loading({[data |-> g, access |-> "owner"] : g \in LayoutGraphs}, MaxOpsAny + 1)

NextLayouts ==
  \/ Load
  \/ Next

SpecLayouts == InitLayouts /\ [][NextLayouts]_vars

\* validateLayerChange on its own, on hierarchy graphs as the server returns them:
\* it stores the layers it is sent and checks none of them
LayerLinks ==
  {<<>>,
   <<NewLink("a", "b", None)>>,
   <<NewLink("a", "b", None), NewLink("b", "c", None)>>,
   <<NewLink("b", "c", None), NewLink("a", "c", None)>>}

LayerGraphs ==
  {[nodes |-> <<SavedNode("a", 100, 40, Some(la)), SavedNode("b", 160, 40, Some(lb)),
                SavedNode("c", 220, 40, Some(lc))>>,
    links |-> ls, type |-> "hierarchy", title |-> "T"] :
     la \in 1..MaxLayer, lb \in 1..MaxLayer, lc \in 1..MaxLayer, ls \in LayerLinks}

InitLayer == Start(LayerGraphs, MaxOps)

\* validateLayerChange(node, newLayer) is called for a node of the graph
ValidateLayer ==
  /\ \E i \in 1..Len(graph.nodes), L \in 1..MaxLayer :
       probe' = Some([node |-> graph.nodes[i], newLayer |-> L,
                      result |-> validateLayerChange(State, nodeObj[graph.nodes[i]], Some(L))])
  /\ UNCHANGED <<nodeObj, linkObj, graph, undoStack, redoStack, selectedNode, selectedIds,
                 pendingNodePlacement, dragSubject, dragGroup, lastPointerDown, dragMoved,
                 layerState, canvas, alert, lastCall, opCount, opLimit, timeline, cursor,
                 request, saveBtn, gesture, Graphs, awaiting, drawQueued, drawFn>>

NextLayer == ValidateLayer

SpecLayer == InitLayer /\ [][NextLayer]_vars

\* ------------------------------------------------------------------ analytics
\* a weight that is a number and not finite
Infinity == <<1, 0>>

\* new Map(nodes.map((n, i) => [String(n.id), i])).get(id): the last index that
\* has the id, 0 for undefined
id2idx(nodes, id) ==
  LET hits == {i \in 1..Len(nodes) : nodes[i].id = id}
  IN IF hits = {} THEN 0 ELSE CHOOSE i \in hits : \A j \in hits : j <= i

\* the loop of shortestPath over k with the arrays dist (None is Infinity),
\* prev (0 is -1) and used; adj[i] is the list of {j, w} of node i
RECURSIVE dijkstra(_, _, _, _)
dijkstra(st, adj, dst, k) ==
  LET n == Len(st.dist)
      open == {i \in 1..n : ~st.used[i] /\ st.dist[i] # None}
      \* the first index with the smallest tentative distance
      u == CHOOSE i \in open :
             \A j \in open : \/ Val(st.dist[i]) < Val(st.dist[j])
                              \/ (Val(st.dist[i]) = Val(st.dist[j]) /\ i <= j)
      RECURSIVE relax(_, _)
      relax(a, m) ==
        IF m > Len(adj[u]) THEN a
        ELSE LET j == adj[u][m].j
                 nd == Val(a.dist[u]) + Max2(0, adj[u][m].w)
             IN relax(IF a.dist[j] = None \/ nd < Val(a.dist[j])
                        THEN [a EXCEPT !.dist[j] = Some(nd), !.prev[j] = u]
                      ELSE a, m + 1)
  IN IF k >= n \/ open = {} THEN st
     ELSE IF u = dst THEN [st EXCEPT !.used[u] = TRUE]
     ELSE dijkstra(relax([st EXCEPT !.used[u] = TRUE], 1), adj, dst, k + 1)

\* shortestPath from the adjacency lists on: the search, the 'no path' result
\* and the path walked back from dst over prev
pathResult(nodes, adj, srcId, dstId) ==
  LET n == Len(nodes)
      src == id2idx(nodes, srcId)
      dst == id2idx(nodes, dstId)
      st == dijkstra([dist |-> [i \in 1..n |-> IF i = src THEN Some(0) ELSE None],
                      prev |-> [i \in 1..n |-> 0],
                      used |-> [i \in 1..n |-> FALSE]], adj, dst, 0)
      RECURSIVE back(_)
      back(v) == IF v = 0 THEN <<>> ELSE back(st.prev[v]) \o <<v>>
      order == back(dst)
  IN IF st.dist[dst] = None THEN [ok |-> FALSE, msg |-> "no path"]
     ELSE [ok |-> TRUE, total |-> Val(st.dist[dst]),
           nodes |-> [i \in 1..Len(order) |-> nodes[order[i]].id],
           edges |-> [i \in 1..(Len(order) - 1) |->
                        [source |-> nodes[order[i]].id, target |-> nodes[order[i + 1]].id]]]

\* shortestPath(srcId, dstId, g) of the analytics module the renderer reads its
\* highlight from (edge indices): an edge is entered at its source only
shortestPath(srcId, dstId, g) ==
  LET nodes == g.nodes
      known == SelectSeq(g.links, LAMBDA e : id2idx(nodes, e.source) # 0 /\ id2idx(nodes, e.target) # 0)
      w(e) == IF Len(e.weight) = 1 THEN Val(e.weight) ELSE 1
      adj == [i \in 1..Len(nodes) |->
                LET es == SelectSeq(known, LAMBDA e : id2idx(nodes, e.source) = i)
                IN [m \in 1..Len(es) |-> [j |-> id2idx(nodes, es[m].target), w |-> w(es[m])]]]
  IN IF srcId = "" \/ dstId = "" THEN [ok |-> FALSE, msg |-> "missing ids"]
     ELSE IF id2idx(nodes, srcId) = 0 \/ id2idx(nodes, dstId) = 0 THEN [ok |-> FALSE, msg |-> "id not found"]
     ELSE pathResult(nodes, adj, srcId, dstId)

\* shortestPath(srcId, dstId, g) of the other copy of the analytics module: an
\* edge is entered at both of its ends
shortestPathUndirected(srcId, dstId, g) ==
  LET nodes == g.nodes
      known == SelectSeq(g.links, LAMBDA e : id2idx(nodes, e.source) # 0 /\ id2idx(nodes, e.target) # 0)
      w(e) == IF e.weight # None /\ Len(e.weight) = 1 THEN Val(e.weight) ELSE 1
      \* the entries of edge m in the list of node i
      entries(i, e) ==
        (IF id2idx(nodes, e.source) = i THEN <<[j |-> id2idx(nodes, e.target), w |-> w(e)]>> ELSE <<>>)
        \o (IF id2idx(nodes, e.target) = i THEN <<[j |-> id2idx(nodes, e.source), w |-> w(e)]>> ELSE <<>>)
      RECURSIVE listOf(_, _)
      listOf(i, m) == IF m > Len(known) THEN <<>> ELSE entries(i, known[m]) \o listOf(i, m + 1)
      adj == [i \in 1..Len(nodes) |-> listOf(i, 1)]
  IN IF srcId = "" \/ dstId = "" THEN [ok |-> FALSE, msg |-> "missing ids"]
     ELSE IF id2idx(nodes, srcId) = 0 \/ id2idx(nodes, dstId) = 0 THEN [ok |-> FALSE, msg |-> "id not found"]
     ELSE pathResult(nodes, adj, srcId, dstId)

\* pageRank with an out-degree that counts an edge again when its target is already a neighbour
pageRankCountsEveryEdge(dNum, maxIter, g) ==
  LET nodes == g.nodes
      N == Len(nodes)
      RECURSIVE fact(_)
      fact(k) == IF k <= 1 THEN 1 ELSE k * fact(k - 1)
      F == fact(N - 1)
      M == 20 * N * F
      outNeighbors == [i \in 1..N |->
        {id2idx(nodes, g.links[m].target) : m \in {m \in 1..Len(g.links) :
            /\ id2idx(nodes, g.links[m].source) = i
            /\ id2idx(nodes, g.links[m].target) # 0
            /\ id2idx(nodes, g.links[m].target) # i}}]
      outDegree == [i \in 1..N |-> Cardinality({m \in 1..Len(g.links) :
            /\ id2idx(nodes, g.links[m].source) = i
            /\ id2idx(nodes, g.links[m].target) # 0
            /\ id2idx(nodes, g.links[m].target) # i})]
      RECURSIVE sumOver(_, _, _)
      sumOver(f, S, i) == IF i > N THEN 0 ELSE (IF i \in S THEN f[i] ELSE 0) + sumOver(f, S, i + 1)
      abs(x) == IF x < 0 THEN 0 - x ELSE x
      step(pr) ==
        LET danglingSum == sumOver(pr.num, {i \in 1..N : outDegree[i] = 0}, 1)
            base == (20 - dNum) * pr.den * F
            danglingShare == dNum * danglingSum * F
            share == [i \in 1..N |-> IF outDegree[i] = 0 THEN 0
                                      ELSE (dNum * pr.num[i] * N * F) \div outDegree[i]]
        IN [num |-> [j \in 1..N |->
                       base + danglingShare
                       + sumOver(share, {i \in 1..N : outDegree[i] # 0 /\ j \in outNeighbors[i]}, 1)],
            den |-> pr.den * M]
      RECURSIVE loop(_, _, _)
      loop(pr, iter, history) ==
        IF iter >= maxIter THEN history
        ELSE LET next == step(pr)
                 diff == sumOver([i \in 1..N |-> abs(next.num[i] - pr.num[i] * M)], 1..N, 1)
             IN IF diff <= (next.den - 1) \div 1000000
                  THEN Append(history, next)
                ELSE loop(next, iter + 1, Append(history, next))
      pr0 == [num |-> [i \in 1..N |-> 1], den |-> N]
      history == loop(pr0, 0, <<>>)
      pr == IF history = <<>> THEN pr0 ELSE Last(history)
  IN IF N = 0 THEN [scores |-> <<>>, history |-> <<>>]
     ELSE [scores |-> [i \in 1..N |-> [id |-> nodes[i].id, num |-> pr.num[i], den |-> pr.den]],
           history |-> history]

\* pageRank({d, maxIter}, g) with d = dNum / 20 and tol = 1e-6, in exact
\* arithmetic: the ranks after an iteration are the integers num over the one
\* denominator den, which grows by the factor 20 * N * (N - 1)! an iteration.
\* history lists the ranks after every iteration, scores is the array returned.
pageRank(dNum, maxIter, g) ==
  LET nodes == g.nodes
      N == Len(nodes)
      RECURSIVE fact(_)
      fact(k) == IF k <= 1 THEN 1 ELSE k * fact(k - 1)
      F == fact(N - 1)
      M == 20 * N * F
      outNeighbors == [i \in 1..N |->
        {id2idx(nodes, g.links[m].target) : m \in {m \in 1..Len(g.links) :
            /\ id2idx(nodes, g.links[m].source) = i
            /\ id2idx(nodes, g.links[m].target) # 0
            /\ id2idx(nodes, g.links[m].target) # i}}]
      outDegree == [i \in 1..N |-> Cardinality(outNeighbors[i])]
      RECURSIVE sumOver(_, _, _)
      sumOver(f, S, i) == IF i > N THEN 0 ELSE (IF i \in S THEN f[i] ELSE 0) + sumOver(f, S, i + 1)
      abs(x) == IF x < 0 THEN 0 - x ELSE x
      step(pr) ==
        LET danglingSum == sumOver(pr.num, {i \in 1..N : outDegree[i] = 0}, 1)
            base == (20 - dNum) * pr.den * F
            danglingShare == dNum * danglingSum * F
            share == [i \in 1..N |-> IF outDegree[i] = 0 THEN 0
                                      ELSE (dNum * pr.num[i] * N * F) \div outDegree[i]]
        IN [num |-> [j \in 1..N |->
                       base + danglingShare
                       + sumOver(share, {i \in 1..N : outDegree[i] # 0 /\ j \in outNeighbors[i]}, 1)],
            den |-> pr.den * M]
      RECURSIVE loop(_, _, _)
      loop(pr, iter, history) ==
        IF iter >= maxIter THEN history
        ELSE LET next == step(pr)
                 diff == sumOver([i \in 1..N |-> abs(next.num[i] - pr.num[i] * M)], 1..N, 1)
             IN IF diff <= (next.den - 1) \div 1000000
                  THEN Append(history, next)
                ELSE loop(next, iter + 1, Append(history, next))
      pr0 == [num |-> [i \in 1..N |-> 1], den |-> N]
      history == loop(pr0, 0, <<>>)
      pr == IF history = <<>> THEN pr0 ELSE Last(history)
  IN IF N = 0 THEN [scores |-> <<>>, history |-> <<>>]
     ELSE [scores |-> [i \in 1..N |-> [id |-> nodes[i].id, num |-> pr.num[i], den |-> pr.den]],
           history |-> history]

\* ------------------------------------------------- functions called on their own

WeightInputs == {None, Some(-1), Some(5), Infinity}

\* edges between the nodes a, b, c: both directions, a self-loop, an unknown id
LinkInputs ==
  {NewLink(p[1], p[2], w) :
     p \in {<<"a", "b">>, <<"b", "a">>, <<"b", "c">>, <<"a", "c">>, <<"a", "a">>, <<"a", "z">>},
     w \in WeightInputs}

\* graph data as it comes from the server, before normalize and dedupe
RawGraphs ==
  {[nodes |-> <<SavedNode("a", 100, 40, None), SavedNode("b", 100, 180, None),
                SavedNode("c", 220, 40, None)>>,
    links |-> ls, type |-> "force", title |-> "T"] :
     ls \in UNION {[1..n -> LinkInputs] : n \in 0..MaxLinks}}

InitCalls ==
  /\ \E data \in RawGraphs, size \in CanvasSizes : Loaded(graphFromData(data, size))
  /\ Answered
  /\ NoServer
  /\ NoFrames
  /\ opLimit = 0
  /\ probe = None
  /\ lastCall = None
  /\ opCount = 0
  /\ timeline = <<GraphValue(State)>>
  /\ cursor = 1

\* the result of a call is kept
Returned(r) ==
  /\ probe' = Some(r)
  /\ UNCHANGED <<nodeObj, linkObj, graph, undoStack, redoStack, selectedNode, selectedIds,
                 pendingNodePlacement, dragSubject, dragGroup, lastPointerDown, dragMoved,
                 layerState, canvas, alert, lastCall, opCount, opLimit, timeline, cursor,
                 request, saveBtn, gesture, Graphs, awaiting, drawQueued, drawFn>>

\* dedupeLinksInPlace() once and a second time, and the import's pass over the same list
DedupeCall ==
  /\ probe = None
  /\ LET once == dedupeLinksInPlace(State)
     IN Returned([call |-> "dedupeLinksInPlace",
                  result |-> LiveLinks(once),
                  again |-> LiveLinks(dedupeLinksInPlace(once)),
                  csv |-> csvOneFileToGraph(LiveLinks(State))])

\* the ids typed into the shortest path fields
PathInputs ==
  {<<"a", "c">>, <<"c", "a">>, <<"b", "a">>, <<"a", "a">>, <<"z", "z">>, <<"a", "z">>, <<"", "a">>}

\* the Run button of the shortest path panel, with either copy of the module
ShortestPathCall ==
  /\ probe = None
  /\ \E p \in PathInputs :
       Returned([call |-> "shortestPath", srcId |-> p[1], dstId |-> p[2],
                 result |-> shortestPath(p[1], p[2], GraphValue(State)),
                 undirected |-> shortestPathUndirected(p[1], p[2], GraphValue(State))])

\* the damping values of the PageRank panel, in twentieths: 0.85 and 1
DampInputs == {17, 20}

\* the Run button of the PageRank panel
PageRankCall ==
  /\ probe = None
  /\ \E dNum \in DampInputs, iters \in 1..MaxIter :
       Returned([call |-> "pageRank", d |-> dNum, maxIter |-> iters,
                 result |-> pageRank(dNum, iters, GraphValue(State))])

\* computeHierarchyLayers(graph.nodes, graph.links), as layoutHierarchy calls it
LayersCall ==
  /\ probe = None
  /\ Returned([call |-> "computeHierarchyLayers",
               result |-> LET ns == LiveNodes(computeHierarchyLayers(State))
                          IN [i \in 1..Len(ns) |-> ns[i].layer],
               shifted |-> shiftedIds(LiveNodes(State), LiveLinks(State))])

NextCalls ==
  \/ DedupeCall
  \/ ShortestPathCall
  \/ PageRankCall
  \/ LayersCall

SpecCalls == InitCalls /\ [][NextCalls]_vars

\* ------------------------------------------------- the layouts as functions
\* canvas sizes: the default one and a lower one
LayoutSizes == {[width |-> 400, height |-> 320], [width |-> 400, height |-> 200]}
MaxGrid == 5
GridIds == <<"a", "b", "c", "d", "e", "f", "g">>

\* grid graphs of up to MaxGrid nodes without positions, or with a saved first node
GridGraphs ==
  {[nodes |-> [i \in 1..n |-> IF i = 1 /\ first THEN SavedNode(GridIds[i], 10, 20, None)
                               ELSE Unplaced(GridIds[i])],
    links |-> <<>>, type |-> "grid", title |-> "T"] : n \in 0..MaxGrid, first \in BOOLEAN}

\* a stored node of a hierarchy graph: no position, an x only, or both; a layer
\* as the editor writes it (an integer from 1 on), or none
HierarchyNodes(id) ==
  {[n EXCEPT !.layer = L] :
     n \in {Unplaced(id), XOnly(id, 70), SavedNode(id, 70, 55, None)},
     L \in {None} \cup {Some(k) : k \in 1..(MaxLayer + 1)}}

HierarchyLinks ==
  {<<>>, <<NewLink("a", "b", None)>>, <<NewLink("a", "b", None), NewLink("b", "c", None)>>,
   <<NewLink("a", "b", None), NewLink("b", "a", None)>>}

HierarchyGraphs ==
  {[nodes |-> <<a, b, c>>, links |-> ls, type |-> "hierarchy", title |-> "T"] :
     a \in HierarchyNodes("a"), b \in HierarchyNodes("b"),
     c \in {Unplaced("c"), SavedNode("c", 70, 55, Some(2)), XOnly("c", 70)},
     ls \in HierarchyLinks}

InitLayoutCalls ==
  /\ \E data \in GridGraphs \cup HierarchyGraphs, size \in LayoutSizes :
       Loaded(graphFromData(data, size))
  /\ Answered
  /\ NoServer
  /\ NoFrames
  /\ opLimit = 0
  /\ probe = None
  /\ lastCall = None
  /\ opCount = 0
  /\ timeline = <<GraphValue(State)>>
  /\ cursor = 1

\* layoutGrid() on a grid graph
GridCall ==
  /\ probe = None
  /\ graph.type = "grid"
  /\ Returned([call |-> "layoutGrid", result |-> LiveNodes(layoutGrid(State))])

\* layoutHierarchy() on a hierarchy graph
HierarchyCall ==
  /\ probe = None
  /\ graph.type = "hierarchy"
  /\ Returned([call |-> "layoutHierarchy", result |-> LiveNodes(layoutHierarchy(State))])

NextLayoutCalls ==
  \/ GridCall
  \/ HierarchyCall

SpecLayoutCalls == InitLayoutCalls /\ [][NextLayoutCalls]_vars

\* ------------------------------------------------------------- the backend
\* requests in flight at one time, and requests followed in one run
MaxInFlight == 2
MaxRequests == 3

\* req.auth of the authenticated users: the owner of the graph and two others
Owner == [uid |-> "1", username |-> "o"]
Ann == [uid |-> "2", username |-> "ann"]
Bob == [uid |-> "3", username |-> "bob"]
Callers == {Owner, Ann, Bob}
\* the usernames of the Users collection, and one that is not in it
Usernames == {u.username : u \in Callers}
ShareTargets == {"ann", "zed"}

\* a node as a request body or the collection holds it; None is a field that
\* is absent, undefined or null
StoredNode(id, label, description, x, y, layer) ==
  [id |-> id, label |-> label, description |-> description,
   x |-> x, y |-> y, fx |-> None, fy |-> None, layer |-> layer]

\* the node savePositionsOnly sends: { id, x, y } and the layer in a hierarchy graph
PositionOf(id, x, y, layer) == StoredNode(id, None, None, Some(x), Some(y), layer)

isOwner(user, g) == g.ownerUserId = user.uid

canReadGraph(user, g) ==
  \/ isOwner(user, g)
  \/ \E i \in 1..Len(g.sharedWithUsernames) : g.sharedWithUsernames[i] = user.username
  \/ \E i \in 1..Len(g.shares) : g.shares[i].username = user.username

\* the mutant takes any share entry for an editor's
isEditorAnyRole(user, g) ==
  \/ isOwner(user, g)
  \/ \E i \in 1..Len(g.shares) : g.shares[i].username = user.username

isEditor(user, g) ==
  \/ isOwner(user, g)
  \/ \E i \in 1..Len(g.shares) :
       g.shares[i].username = user.username /\ g.shares[i].role = "editor"

\* positions only: merge by id; the spread of the incoming node comes second,
\* then description is taken from the stored node when the incoming has none
mergeNodes(g, incoming) ==
  LET prevOf(id) == LET hits == {i \in 1..Len(g.nodes) : g.nodes[i].id = id}
                    IN IF hits = {} THEN None ELSE Some(g.nodes[Greatest(hits)])
      merged == [i \in 1..Len(incoming) |->
                   LET n == incoming[i]
                       prev == prevOf(n.id)
                   IN [n EXCEPT !.description =
                         IF n.description = None /\ prev # None THEN Val(prev).description
                         ELSE n.description]]
      mentioned == {incoming[i].id : i \in 1..Len(incoming)}
  IN merged \o SelectSeq(g.nodes, LAMBDA old : old.id \notin mentioned)

\* the patch of a PUT: only what the client sent is set
putPatch(g, body) ==
  [title |-> body.title,
   type |-> body.type,
   nodes |-> IF body.nodes = None THEN None
             ELSE IF body.links # None THEN body.nodes
             ELSE Some(mergeNodes(g, Val(body.nodes))),
   links |-> body.links]

\* updateOne({ $set: patch })
setFields(g, patch) ==
  [g EXCEPT !.title = IF patch.title = None THEN @ ELSE Val(patch.title),
            !.type = IF patch.type = None THEN @ ELSE Val(patch.type),
            !.nodes = IF patch.nodes = None THEN @ ELSE Val(patch.nodes),
            !.links = IF patch.links = None THEN @ ELSE Val(patch.links)]

\* the shares with the entry of username replaced
sharesWith(g, username, role) ==
  Append(SelectSeq(g.shares, LAMBDA s : s.username # username),
         [username |-> username, role |-> IF role \in {"editor", "viewer"} THEN role ELSE "viewer"])

\* updateOne({ $addToSet: { sharedWithUsernames: username } })
addToSet(list, v) == IF \E i \in 1..Len(list) : list[i] = v THEN list ELSE Append(list, v)

\* the stored nodes and links of the graph a, b with the edge a -> b
StoredNodes ==
  <<StoredNode("a", Some("A"), Some("D"), Some(100), Some(40), None),
    StoredNode("b", Some("B"), None, Some(100), Some(180), None)>>
StoredLinks == <<NewLink("a", "b", None)>>

\* the document with the shares the share handler leaves: nobody; bob a
\* viewer; ann an editor and bob a viewer; bob only in the legacy list
StoredGraphs ==
  {[ownerUserId |-> Owner.uid, title |-> "T", type |-> "force",
    nodes |-> StoredNodes, links |-> StoredLinks,
    shares |-> sh[1], sharedWithUsernames |-> sh[2]] :
     sh \in {<<<<>>, <<>>>>,
             <<<<[username |-> "bob", role |-> "viewer"]>>, <<"bob">>>>,
             <<<<[username |-> "ann", role |-> "editor"], [username |-> "bob", role |-> "viewer"]>>,
               <<"ann", "bob">>>>,
             <<<<>>, <<"bob">>>>}}

\* bodies of a PUT: the positions of b alone, a full save without b under a new title
PutBodies ==
  {[title |-> None, type |-> None, links |-> None,
    nodes |-> Some(<<PositionOf("b", 5, 6, None)>>)],
   [title |-> Some("U"), type |-> Some("force"), links |-> Some(<<>>),
    nodes |-> Some(<<StoredNode("a", Some("A2"), None, Some(1), Some(2), None)>>)]}

\* the page is not part of a run of the backend
InitServer ==
  /\ \E size \in CanvasSizes : Loaded(beforeLoad(size))
  /\ Answered
  /\ Graphs \in {Some(g) : g \in StoredGraphs}
  /\ awaiting = <<>>
  /\ NoFrames
  /\ opLimit = MaxRequests
  /\ probe = None
  /\ lastCall = None
  /\ opCount = 0
  /\ timeline = <<GraphValue(State)>>
  /\ cursor = 1

Page == <<nodeObj, linkObj, graph, undoStack, redoStack, selectedNode, selectedIds,
          pendingNodePlacement, dragSubject, dragGroup, lastPointerDown, dragMoved,
          layerState, canvas, alert, request, saveBtn, gesture, opLimit, timeline, cursor,
          drawQueued, drawFn>>

\* res.json of a handler: the request and what it is answered
Respond(req, status, body) ==
  /\ probe' = Some([request |-> req, status |-> status, body |-> body])
  /\ lastCall' = Some(req)
  /\ UNCHANGED Page

\* a handler goes on after an await: nothing is answered yet
Proceed(req) ==
  /\ probe' = probe
  /\ lastCall' = Some(req)
  /\ UNCHANGED Page

Arrives == opCount < opLimit /\ Len(awaiting) < MaxInFlight /\ opCount' = opCount + 1

Drop(k) == [i \in 1..(Len(awaiting) - 1) |-> IF i < k THEN awaiting[i] ELSE awaiting[i + 1]]

\* PUT /api/graphs/:id up to the await of updateOne
PutFind(user, body) ==
  LET req == [method |-> "PUT", user |-> user, body |-> body]
  IN /\ Arrives
     /\ IF Graphs = None
          THEN Respond(req, 404, "not found") /\ UNCHANGED <<Graphs, awaiting>>
        ELSE IF ~isEditor(user, Val(Graphs))
          THEN Respond(req, 403, "forbidden_readonly") /\ UNCHANGED <<Graphs, awaiting>>
        ELSE /\ Proceed(req)
             /\ awaiting' = Append(awaiting, [req |-> req, graph |-> Val(Graphs), at |-> "updateOne",
                                              patch |-> putPatch(Val(Graphs), body)])
             /\ Graphs' = Graphs

\* the updateOne of a PUT
PutUpdate(k) ==
  /\ k \in 1..Len(awaiting) /\ awaiting[k].at = "updateOne"
  /\ Graphs' = IF Graphs = None THEN None ELSE Some(setFields(Val(Graphs), awaiting[k].patch))
  /\ awaiting' = [awaiting EXCEPT ![k].at = "findOne"]
  /\ Proceed(awaiting[k].req)
  /\ opCount' = opCount

\* the findOne after the update and the answer; without a document
\* updated._id throws
PutRespond(k) ==
  /\ k \in 1..Len(awaiting) /\ awaiting[k].at = "findOne"
  /\ IF Graphs = None THEN Respond(awaiting[k].req, 500, "TypeError")
     ELSE Respond(awaiting[k].req, 200, Val(Graphs))
  /\ awaiting' = Drop(k)
  /\ UNCHANGED <<Graphs, opCount>>

\* POST /api/graphs/:id/share up to the await of Users.findOne
ShareFind(user, username, role) ==
  LET req == [method |-> "POST share", user |-> user, body |-> [username |-> username, role |-> role]]
  IN /\ Arrives
     /\ UNCHANGED Graphs
     /\ IF Graphs = None
          THEN Respond(req, 404, "not found") /\ awaiting' = awaiting
        ELSE IF ~isOwner(user, Val(Graphs))
          THEN Respond(req, 403, "owner only") /\ awaiting' = awaiting
        ELSE /\ Proceed(req)
             /\ awaiting' = Append(awaiting, [req |-> req, graph |-> Val(Graphs), at |-> "Users.findOne",
                                              patch |-> None])

\* the target user is looked up and the shares are set, from the document read before
ShareSet(k) ==
  /\ k \in 1..Len(awaiting) /\ awaiting[k].at = "Users.findOne"
  /\ opCount' = opCount
  /\ LET e == awaiting[k]
     IN IF e.req.body.username \notin Usernames
          THEN /\ Respond(e.req, 404, "user not found")
               /\ awaiting' = Drop(k)
               /\ Graphs' = Graphs
        ELSE /\ Proceed(e.req)
             /\ Graphs' = IF Graphs = None THEN None
                          ELSE Some([Val(Graphs) EXCEPT
                                       !.shares = sharesWith(e.graph, e.req.body.username, e.req.body.role)])
             /\ awaiting' = [awaiting EXCEPT ![k].at = "addToSet"]

\* the legacy list is extended and the request answered
ShareAdd(k) ==
  /\ k \in 1..Len(awaiting) /\ awaiting[k].at = "addToSet"
  /\ opCount' = opCount
  /\ Graphs' = IF Graphs = None THEN None
               ELSE Some([Val(Graphs) EXCEPT
                            !.sharedWithUsernames = addToSet(@, awaiting[k].req.body.username)])
  /\ Respond(awaiting[k].req, 200, "ok")
  /\ awaiting' = Drop(k)

\* DELETE /api/graphs/:id up to the await of deleteOne
DeleteFind(user) ==
  LET req == [method |-> "DELETE", user |-> user, body |-> None]
  IN /\ Arrives
     /\ UNCHANGED Graphs
     /\ IF Graphs = None
          THEN Respond(req, 404, "not found") /\ awaiting' = awaiting
        ELSE IF ~isOwner(user, Val(Graphs))
          THEN Respond(req, 403, "owner only") /\ awaiting' = awaiting
        ELSE /\ Proceed(req)
             /\ awaiting' = Append(awaiting, [req |-> req, graph |-> Val(Graphs), at |-> "deleteOne",
                                              patch |-> None])

DeleteOne(k) ==
  /\ k \in 1..Len(awaiting) /\ awaiting[k].at = "deleteOne"
  /\ opCount' = opCount
  /\ Graphs' = None
  /\ Respond(awaiting[k].req, 200, "ok")
  /\ awaiting' = Drop(k)

NextServer ==
  \/ \E user \in Callers, body \in PutBodies : PutFind(user, body)
  \/ \E k \in 1..MaxInFlight : PutUpdate(k)
  \/ \E k \in 1..MaxInFlight : PutRespond(k)
  \/ \E user \in Callers, username \in ShareTargets, role \in {"editor", "viewer"} :
       ShareFind(user, username, role)
  \/ \E k \in 1..MaxInFlight : ShareSet(k)
  \/ \E k \in 1..MaxInFlight : ShareAdd(k)
  \/ \E user \in Callers : DeleteFind(user)
  \/ \E k \in 1..MaxInFlight : DeleteOne(k)

SpecServer == InitServer /\ [][NextServer]_vars

\* ------------------------------------------------------- a gesture, watched
\* the drag handlers with the graph remembered as it was when the gesture began
DragStartWatched ==
  /\ Ready(FALSE)
  /\ \E i \in 1..Len(graph.nodes) :
       LET n == nodeObj[graph.nodes[i]]
           pos == <<xOr0(n), yOr0(n)>>
       IN Ran(<<"dragstarted", pos>>, dragstarted(State, findNodeAt(State, pos), pos))
  /\ gesture' = Some([before |-> GraphValue(State), moved |-> FALSE])
  /\ UNCHANGED <<request, saveBtn>>

DraggedWatched ==
  /\ dragSubject # 0
  /\ \E pos \in PointerPos : Ran(<<"dragged", pos>>, dragged(State, pos))
  /\ gesture' = Some([Val(gesture) EXCEPT !.moved = TRUE])
  /\ UNCHANGED <<request, saveBtn>>

DragEndWatched ==
  /\ dragSubject # 0
  /\ Ran(<<"dragended">>,
         forgetPointer(dragended(IF dragMoved THEN State ELSE onPointerUp(State, lastPointerDown))))
  /\ gesture' = gesture
  /\ UNCHANGED <<request, saveBtn>>

\* drags, clicks and searches on a graph of either type, undone and redone
NextWatched ==
  \/ DragStartWatched
  \/ DraggedWatched
  \/ DragEndWatched
  \/ ClickEmpty
  \/ Search
  \/ Undo(FALSE)
  \/ Redo(FALSE)

SpecWatched == InitAny /\ [][NextWatched]_vars

\* ------------------------------------------------------ the window resized
\* the canvas element gets another size and the resize listener runs:
\* resizeCanvas() and scheduleDraw() fit the bitmap and draw, nothing else
Resize ==
  /\ alert = ""
  /\ \E size \in LayoutSizes :
       /\ size # canvas
       /\ Handler(<<"resize">>, [State EXCEPT !.canvas = size])

\* a short session on a graph of either type in a window that is resized
NextResize ==
  \/ Next
  \/ Resize

SpecResize == InitAny /\ [][NextResize]_vars

\* --------------------------------------------------------------- the save
\* the mutant sends the nodes without their positions
nodesOutWithoutXY(s) ==
  [i \in 1..Len(s.graph.nodes) |->
     LET n == LiveNodes(s)[i]
     IN [id |-> n.id, label |-> n.label, description |-> n.description,
         x |-> None, y |-> None,
         layer |-> IF s.graph.type = "hierarchy" THEN n.layer ELSE None]]

\* nodesOut of saveAll: new objects with id, label, description, the x and y
\* that are finite, and the layer in a hierarchy graph
nodesOut(s) ==
  [i \in 1..Len(s.graph.nodes) |->
     LET n == LiveNodes(s)[i]
     IN [id |-> n.id, label |-> n.label, description |-> n.description,
         x |-> n.x, y |-> n.y,
         layer |-> IF s.graph.type = "hierarchy" THEN n.layer ELSE None]]

\* JSON.stringify(body) in apiFetch: the text holds the values the objects
\* of graph.links have when it runs
stringify(s, nodes, links) ==
  [nodes |-> nodes, links |-> [i \in 1..Len(links) |-> s.linkObj[links[i]]]]

\* a click on Save: saveAll() runs to its await; apiPut and apiFetch run to
\* fetch() in the same call, so the body is text when the handler is left
SaveAll ==
  /\ Idle
  /\ ~saveBtn.disabled
  /\ Len(awaiting) < MaxInFlight
  /\ awaiting' = Append(awaiting, [req |-> [method |-> "PUT",
                                            body |-> stringify(State, nodesOut(State), graph.links)],
                                   at |-> "fetch"])
  /\ UNCHANGED <<Page, probe, lastCall, opCount, Graphs>>

\* what the server answers a PUT
SaveAnswers == {"", "forbidden_readonly", "not found"}

\* the response of a save comes and saveAll() runs on from its await: an alert
SaveResponse ==
  /\ alert = ""
  /\ \E k \in 1..Len(awaiting), error \in SaveAnswers :
       /\ awaiting[k].at = "fetch"
       /\ awaiting' = Drop(k)
       /\ alert' = IF error = "forbidden_readonly"
                     THEN "This graph is read-only for you. Ask the owner to make you an editor."
                   ELSE IF error # "" THEN error ELSE "Saved!"
  /\ UNCHANGED <<nodeObj, linkObj, graph, undoStack, redoStack, selectedNode, selectedIds,
                 pendingNodePlacement, dragSubject, dragGroup, lastPointerDown, dragMoved,
                 layerState, canvas, request, saveBtn, gesture, opLimit, timeline, cursor,
                 probe, lastCall, opCount, Graphs, drawQueued, drawFn>>

\* a short session on a graph of either type with saves
NextSave ==
  \/ Next
  \/ SaveAll
  \/ SaveResponse

SpecSave == InitAny /\ [][NextSave]_vars

\* -------------------------------------------------- ids that contain an arrow

\* ids are free text: the id field of Add node takes any string, "->" included
ArrowIds == {"a", "c", "a->b", "b->c"}

ArrowLinks == {NewLink(s, t, None) : s \in ArrowIds, t \in ArrowIds}

\* graph data whose nodes and edges carry such ids
ArrowGraphs ==
  {[nodes |-> <<SavedNode("a", 100, 40, None), SavedNode("c", 100, 180, None),
                SavedNode("a->b", 220, 40, None), SavedNode("b->c", 220, 180, None)>>,
    links |-> ls, type |-> "force", title |-> "T"] :
     ls \in UNION {[1..n -> ArrowLinks] : n \in 0..MaxLinks}}

InitArrows ==
  /\ \E data \in ArrowGraphs, size \in CanvasSizes : Loaded(graphFromData(data, size))
  /\ Answered
  /\ NoServer
  /\ NoFrames
  /\ opLimit = 0
  /\ probe = None
  /\ lastCall = None
  /\ opCount = 0
  /\ timeline = <<GraphValue(State)>>
  /\ cursor = 1

SpecArrows == InitArrows /\ [][DedupeCall]_vars

\* ------------------------------------------------------------ frame scheduler

\* calls of scheduleDraw() that are followed
MaxDrawCalls == 4

\* the mutant asks for a frame at every call
scheduleDrawAlways(queued) == [drawQueued |-> TRUE, frames |-> 1]

\* scheduleDraw(): the flag after the call and the callbacks handed to
\* requestAnimationFrame by it
scheduleDraw(queued) ==
  IF queued THEN [drawQueued |-> TRUE, frames |-> 0]
  ELSE [drawQueued |-> TRUE, frames |-> 1]

\* the page is loaded and nothing is drawn yet
InitDraw == Start(LoadedGraphs, MaxDrawCalls)

\* the graph, the history and the controls stay as they are while frames are followed
Still ==
  UNCHANGED <<nodeObj, linkObj, graph, undoStack, redoStack, selectedNode, selectedIds,
              pendingNodePlacement, dragSubject, dragGroup, lastPointerDown, dragMoved,
              layerState, canvas, alert, request, saveBtn, gesture, opLimit, timeline, cursor,
              Graphs>>

\* drawFn() is entered; it returns or throws, and the catch takes what it throws.
\* probe keeps whether this draw threw and whether one before it did.
DrawStarts(threw) ==
  /\ lastCall' = Some(<<"draw", threw>>)
  /\ probe' = Some([call |-> "draw", threw |-> threw,
                    earlierThrew |-> probe # None /\ (Val(probe).threw \/ Val(probe).earlierThrew)])

\* some handler calls scheduleDraw()
ScheduleDraw ==
  /\ opCount < opLimit
  /\ opCount' = opCount + 1
  /\ drawQueued' = scheduleDraw(drawQueued).drawQueued
  /\ awaiting' = awaiting \o [i \in 1..scheduleDraw(drawQueued).frames |-> [at |-> "requestAnimationFrame"]]
  /\ lastCall' = Some(<<"scheduleDraw">>)
  /\ UNCHANGED <<drawFn, probe>>
  /\ Still

\* the animation frame: the callback clears the flag, then draws, or waits for
\* render.js when drawFn is not set
FrameCallback ==
  /\ \E k \in 1..Len(awaiting) :
       /\ awaiting[k].at = "requestAnimationFrame"
       /\ drawQueued' = FALSE
       /\ IF drawFn = None
            THEN /\ awaiting' = [awaiting EXCEPT ![k].at = "import"]
                 /\ lastCall' = Some(<<"frame">>)
                 /\ probe' = probe
            ELSE /\ awaiting' = Drop(k)
                 /\ \E threw \in BOOLEAN : DrawStarts(threw)
  /\ UNCHANGED <<drawFn, opCount>>
  /\ Still

\* render.js is there: the callback goes on behind its await, sets drawFn and draws
ImportResolves ==
  /\ \E k \in 1..Len(awaiting) :
       /\ awaiting[k].at = "import"
       /\ awaiting' = Drop(k)
  /\ drawFn' = Some("draw")
  /\ \E threw \in BOOLEAN : DrawStarts(threw)
  /\ UNCHANGED <<drawQueued, opCount>>
  /\ Still

NextDraw ==
  \/ ScheduleDraw
  \/ FrameCallback
  \/ ImportResolves

\* the browser runs a requested frame, and the import of render.js settles
SpecDraw ==
  InitDraw /\ [][NextDraw]_vars /\ WF_vars(FrameCallback) /\ WF_vars(ImportResolves)

\* --------------------------------------------------------------------- claims
Live == GraphValue(State)
UndoValues == [i \in 1..Len(undoStack) |-> ValueOf(State, undoStack[i])]
RedoValues == [i \in 1..Len(redoStack) |-> ValueOf(State, redoStack[i])]
NodeIds == [i \in 1..Len(graph.nodes) |-> nodeObj[graph.nodes[i]].id]

C2_SnapshotIndependence ==
  [][/\ \A i \in 1..Min2(Len(undoStack), Len(undoStack')) : UndoValues'[i] = UndoValues[i]
     /\ \A i \in 1..Min2(Len(redoStack), Len(redoStack')) : RedoValues'[i] = RedoValues[i]]_vars

\* after an undo made a snapshot's objects the live ones, an operation changed a
\* node of the live graph; the snapshot taken before it still has the old value
C2_Witness ==
  /\ opCount = 2 /\ Len(undoStack) = 2 /\ redoStack = <<>>
  /\ Len(UndoValues[2].nodes) = Len(Live.nodes)
  /\ \E i \in 1..Len(Live.nodes) :
       UndoValues[2].nodes[i].description = "" /\ Live.nodes[i].description = "D"

\* C3: every capture empties the redo stack, and while the redo stack is empty
\* redo() changes neither the graph nor a stack.
C3_CaptureClearsRedo ==
  [][/\ opCount' > opCount => redoStack' = <<>>
     /\ redoStack' = <<>> => redo(State') = State']_vars

\* two undos, then a captured operation: nothing is left to redo
C3_Witness ==
  /\ opCount = 2 /\ Len(undoStack) = 1 /\ redoStack = <<>>
  /\ Len(timeline) = 2 /\ cursor = 2

\* C4: id uniqueness.  No two nodes of graph.nodes share an id.
C4_UniqueIds ==
  \A i, j \in 1..Len(graph.nodes) : i # j => NodeIds[i] # NodeIds[j]

\* C5: hierarchy direction.  In a hierarchy graph every edge goes from a layer
\* to a larger one.
C5_HierarchyDirection ==
  graph.type = "hierarchy" =>
    \A k \in 1..Len(graph.links), i, j \in 1..Len(graph.nodes) :
      LET e == linkObj[graph.links[k]]
          sN == nodeObj[graph.nodes[i]]
          tN == nodeObj[graph.nodes[j]]
      IN (sN.id = e.source /\ tN.id = e.target)
           => (isFinite(sN.layer) /\ isFinite(tN.layer) /\ Val(sN.layer) < Val(tN.layer))

\* layer(source) < layer(target) for every edge incident to node, with L for the layer of node
IncidentEdgesOk(node, L) ==
  \A k \in 1..Len(graph.links) :
    LET e == linkObj[graph.links[k]]
        layerOf(id) == IF id = node.id THEN Some(L)
                       ELSE LET n == getNodeById(State, id) IN IF n = None THEN None ELSE Val(n).layer
    IN (e.source = node.id \/ e.target = node.id)
         => (/\ isFinite(layerOf(e.source)) /\ isFinite(layerOf(e.target))
             /\ Val(layerOf(e.source)) < Val(layerOf(e.target)))

\* C6: validateLayerChange(node, newLayer) with newLayer >= 1 returns ok exactly
\* when every edge incident to node goes downward with newLayer for node's
\* layer; the other edges do not count.
C6_IncidentEdgesDecide ==
  probe # None =>
    (Val(probe).result.ok <=> IncidentEdgesOk(nodeObj[Val(probe).node], Val(probe).newLayer))

\* C7: delete node cascade.  After Delete node on the selected node with id v
\* no node has id v, no edge has v as an endpoint, and the other nodes and the
\* edges not incident to v are all still there, in their order.
C7_DeleteCascade ==
  [][(lastCall' = Some(<<"onDeleteNode">>))
       => LET v == nodeObj[selectedNode].id
          IN /\ NodeIds' = SelectSeq(NodeIds, LAMBDA id : id # v)
             /\ LiveLinks(State') = SelectSeq(LiveLinks(State), LAMBDA e : e.source # v /\ e.target # v)]_vars

\* the links with every endpoint old replaced by new
RenamedLinks(old, new) ==
  [k \in 1..Len(graph.links) |->
     LET e == linkObj[graph.links[k]]
     IN [e EXCEPT !.source = IF @ = old THEN new ELSE @, !.target = IF @ = old THEN new ELSE @]]

\* C8: edit node rename.  After an edit that changes the selected node's id from
\* old to new, a node has id new and none has id old, and the edges are the
\* edges of before with old replaced by new, same number, order and weights.
C8_RenameRewritesEdges ==
  [][\A new \in Ids, t \in Texts, L \in LayerInputs :
       (lastCall' = Some(<<"onApplyEdit", new, t, L>>) /\ nodeObj[selectedNode].id # new)
         => LET old == nodeObj[selectedNode].id
            IN /\ hasId(State', new) /\ ~hasId(State', old)
               /\ LiveLinks(State') = RenamedLinks(old, new)]_vars

\* the edit asks for the layer L
LayerRequested(L) ==
  /\ graph.type = "hierarchy"
  /\ isFinite(L) /\ Val(L) >= 1 /\ L # nodeObj[selectedNode].layer

\* C9: edit node partial success.  In a hierarchy graph an edit with a valid id
\* and a requested layer that validateLayerChange rejects writes id, label and
\* description, rewrites the edges, leaves the node's layer and y alone and
\* raises the alert; and an edit changes the layer only to the requested layer
\* and only when validateLayerChange accepts it.
C9_EditPartialSuccess ==
  [][\A new \in Ids, t \in Texts, L \in LayerInputs :
       (lastCall' = Some(<<"onApplyEdit", new, t, L>>) /\ LayerRequested(L))
         => LET old == nodeObj[selectedNode]
                now == nodeObj'[selectedNode']
                v == validateLayerChange(State', now, L)
            IN /\ now.id = new /\ now.label = t[1] /\ now.description = t[2]
               /\ LiveLinks(State') = RenamedLinks(old.id, new)
               /\ ~v.ok => (now.layer = old.layer /\ now.y = old.y /\ alert' = v.msg)
               /\ now.layer # old.layer => (now.layer = L /\ v.ok /\ alert' = "")]_vars

\* the rename of b to c with layer 1 requested: the edge a -> b is now a -> c,
\* c is still on layer 2 and the alert is open
C9_Witness ==
  /\ lastCall = Some(<<"onApplyEdit", "c", <<"L", "D">>, Some(1)>>)
  /\ alert = "No same layer edges allowed in hierarchy."
  /\ nodeObj[selectedNode].id = "c" /\ nodeObj[selectedNode].description = "D"
  /\ nodeObj[selectedNode].layer = Some(2)
  /\ \E k \in 1..Len(graph.links) : linkObj[graph.links[k]].target = "c"

\* C10: failed mutations are all-or-nothing.  A handler that raises an alert
\* and captures nothing leaves nodes, links, type and title as they were, the
\* same objects with the same fields.
C10_RejectedLeavesGraph ==
  [][(alert = "" /\ alert' # "" /\ opCount' = opCount)
       => (Live' = Live /\ graph' = graph)]_vars

\* a duplicate id was refused in the edit panel after an operation had changed the graph
C10_Witness ==
  /\ alert = "Another node already has that id"
  /\ opCount >= 1 /\ Live # timeline[1]

\* the handler is called with the edge panel fields e in the present state
AddEdgeResult(e) == onAddOrUpdateEdge(State, e[1], e[2], e[3])

\* both endpoints are nodes with finite layers and the source is on the smaller one
DownwardPair(src, dst) ==
  LET sN == getNodeById(State, src)
      tN == getNodeById(State, dst)
  IN /\ sN # None /\ tN # None
     /\ isFinite(Val(sN).layer) /\ isFinite(Val(tN).layer)
     /\ Val(Val(sN).layer) < Val(Val(tN).layer)

\* the cases C11 names: same endpoints, an id that is no node's, a hierarchy
\* edge that is not downward
EdgeRejected(e) ==
  \/ e[1] = e[2]
  \/ ~hasId(State, e[1]) \/ ~hasId(State, e[2])
  \/ (graph.type = "hierarchy" /\ ~DownwardPair(e[1], e[2]))

\* a force graph and a weight field that is filled in but no number
WeightRejected(e) == graph.type = "force" /\ e[3] # "" /\ NumberOf(e[3]) = None

PairPresent(e) == findEdgeIndexByIds(State, e[1], e[2]) # 0

\* r left nodes, links, type and title as they are and captured nothing
Untouched(r) == GraphValue(r) = Live /\ r.captures = 0

\* r has the edges of before followed by one new edge e[1] -> e[2]
Appended(r, e) ==
  LET old == LiveLinks(State)
      new == LiveLinks(r)
  IN /\ Len(new) = Len(old) + 1
     /\ SubSeq(new, 1, Len(old)) = old
     /\ new[Len(new)].source = e[1] /\ new[Len(new)].target = e[2]
     /\ LiveNodes(r) = LiveNodes(State)
     /\ r.alert = ""

\* at most one edge per ordered (source, target) pair in graph.links
UniquePairs ==
  \A i, j \in 1..Len(graph.links) :
    (/\ linkObj[graph.links[i]].source = linkObj[graph.links[j]].source
     /\ linkObj[graph.links[i]].target = linkObj[graph.links[j]].target) => i = j

UpdatesInPlace(e) ==
  LET r == AddEdgeResult(e)
      idx == findEdgeIndexByIds(State, e[1], e[2])
  IN IF graph.type = "force"
       THEN /\ (e[3] # "" /\ NumberOf(e[3]) # None) =>
                 /\ LiveLinks(r) = [LiveLinks(State) EXCEPT ![idx].weight = NumberOf(e[3])]
                 /\ LiveNodes(r) = LiveNodes(State)
                 /\ r.alert = ""
            /\ e[3] = "" => (Untouched(r) /\ r.alert = "")
     ELSE Untouched(r) /\ r.alert = ""

WeightsOf(links) == [k \in 1..Len(links) |-> links[k].weight]

\* a can be had from b by leaving elements out
RECURSIVE IsSubSeq(_, _)
IsSubSeq(a, b) ==
  IF a = <<>> THEN TRUE
  ELSE IF b = <<>> THEN FALSE
  ELSE IF a[1] = b[1] THEN IsSubSeq(Tail(a), Tail(b))
  ELSE IsSubSeq(a, Tail(b))

\* C13: in a graph that is not a force graph no operation creates an edge with
\* a weight or changes the weight of an edge.  A step that is not an undo or a
\* redo leaves the weights of the edges it keeps and adds edges without weight
\* only; an undo or redo brings back a snapshot as it was stored.
C13_NoWeightOutsideForce ==
  [][graph.type # "force" =>
       \/ IsSubSeq(WeightsOf(LiveLinks(State')), WeightsOf(LiveLinks(State)) \o <<None>>)
       \/ \E i \in 1..Len(undoStack) : Live' = UndoValues[i]
       \/ \E i \in 1..Len(redoStack) : Live' = RedoValues[i]]_vars

\* the edge panel asked for an edge with weight 2 in a hierarchy graph and the
\* new edge carries none
C13_Witness ==
  /\ graph.type = "hierarchy"
  /\ \E e \in EdgeInputs : e[3] = "2" /\ lastCall = Some(<<"onAddOrUpdateEdge", e>>)
  /\ \A k \in 1..Len(graph.links) : linkObj[graph.links[k]].weight = None

\* C14: edge pair uniqueness over the session.  graph.links holds at most one
\* edge per ordered (source, target) pair in every reachable state.
C14_PairUniqueness == UniquePairs

\* the edges of a list that no later edge of the list repeats, in order
RECURSIVE LastOccurrences(_)
LastOccurrences(ls) ==
  IF ls = <<>> THEN <<>>
  ELSE (IF \E j \in 2..Len(ls) : ls[j].source = ls[1].source /\ ls[j].target = ls[1].target
          THEN <<>> ELSE <<ls[1]>>) \o LastOccurrences(Tail(ls))

\* C15: dedupe keeps the last occurrence.  After dedupeLinksInPlace (and after
\* the import's pass) the list holds, in their order, exactly the edges that
\* were the last of their (source, target) pair, each with its own weight, so
\* one edge per pair; a second pass changes nothing.
C15_DedupeKeepsLast ==
  (probe # None /\ Val(probe).call = "dedupeLinksInPlace") =>
     /\ Val(probe).result = LastOccurrences(LiveLinks(State))
     /\ Val(probe).csv = LastOccurrences(LiveLinks(State))
     /\ Val(probe).again = Val(probe).result

\* a list a->b (no weight), b->c, a->b (weight 5) was deduped to b->c, a->b (weight 5)
C15_Witness ==
  /\ probe # None /\ Val(probe).call = "dedupeLinksInPlace"
  /\ LiveLinks(State) = <<NewLink("a", "b", None), NewLink("b", "c", None), NewLink("a", "b", Some(5))>>
  /\ Val(probe).result = <<NewLink("b", "c", None), NewLink("a", "b", Some(5))>>

\* C16: exactly one snapshot per gesture.  No step pushes more than one
\* snapshot; a step outside a drag that changes nodes, links, type or title and
\* is no undo or redo pushes one; in a drag the start and the end push none and
\* of the moves the first pushes one, with any number of nodes in the group.
C16_OneSnapshotPerGesture ==
  [][LET pushed == opCount' - opCount
         historyMove == pushed = 0 /\ Len(redoStack') # Len(redoStack)
     IN /\ pushed \in {0, 1}
        /\ pushed = 1 => Len(undoStack') = Len(undoStack) + 1
        /\ (dragSubject = 0 /\ dragSubject' = 0 /\ ~historyMove /\ Live' # Live) => pushed = 1
        /\ (dragSubject = 0 /\ dragSubject' # 0) => pushed = 0
        /\ (dragSubject # 0 /\ dragSubject' # 0) => pushed = (IF dragMoved THEN 0 ELSE 1)
        /\ (dragSubject # 0 /\ dragSubject' = 0) => pushed = 0]_vars

\* a group of two nodes is being dragged, the pointer has moved a second time
\* and the drag has pushed one snapshot
C16_Witness ==
  /\ dragSubject # 0 /\ dragMoved
  /\ dragGroup # None /\ Len(Val(dragGroup)) = 2
  /\ lastCall = None
  /\ opCount = 1 /\ Len(undoStack) = 2

\* the cost of an edge: its weight, 1 when absent or not finite, at least 0
EdgeCost(e) == IF Len(e.weight) = 1 THEN Max2(0, Val(e.weight)) ELSE 1

\* the least of a set of costs, None for the empty set
Least(S) == IF S = {} THEN None ELSE Some(MinOf(S))

\* the costs of the edges of g that join x and y, in either direction
JoinCosts(g, x, y) ==
  {EdgeCost(g.links[m]) : m \in {m \in 1..Len(g.links) :
      \/ (g.links[m].source = x /\ g.links[m].target = y)
      \/ (g.links[m].source = y /\ g.links[m].target = x)}}

\* the least cost of a path of at most k edges from x to y among the nodes of
\* g, every edge traversable in both directions; None when there is none
RECURSIVE PathCost(_, _, _, _)
PathCost(g, x, y, k) ==
  LET ids == {g.nodes[i].id : i \in 1..Len(g.nodes)}
      via(z) == LET d == PathCost(g, x, z, k - 1)
                    c == Least(JoinCosts(g, z, y))
                IN IF d = None \/ c = None THEN {} ELSE {Val(d) + Val(c)}
  IN IF k = 0 THEN (IF x = y THEN Some(0) ELSE None)
     ELSE Least((IF x = y THEN {0} ELSE {}) \cup UNION {via(z) : z \in ids \ {y}})

\* what C17 says of a result r for the ids x, y that are nodes of g and connected
OptimalPath(r, g, x, y) ==
  /\ r.ok
  /\ r.total = Val(PathCost(g, x, y, Len(g.nodes) - 1))
  /\ r.nodes[1] = x /\ Last(r.nodes) = y
  /\ \A i \in 1..(Len(r.nodes) - 1) : JoinCosts(g, r.nodes[i], r.nodes[i + 1]) # {}
  /\ \E pick \in [1..(Len(r.nodes) - 1) -> 0..r.total] :
       /\ \A i \in DOMAIN pick : pick[i] \in JoinCosts(g, r.nodes[i], r.nodes[i + 1])
       /\ LET RECURSIVE sum(_)
               sum(i) == IF i = 0 THEN 0 ELSE pick[i] + sum(i - 1)
           IN sum(Len(r.nodes) - 1) = r.total

\* both ids are ids of nodes of the graph and a path joins them
Connected(x, y) ==
  /\ x \in {NodeIds[i] : i \in 1..Len(NodeIds)}
  /\ y \in {NodeIds[i] : i \in 1..Len(NodeIds)}
  /\ PathCost(Live, x, y, Len(Live.nodes) - 1) # None

\* C17: shortest path optimality.  When srcId and dstId are nodes and
\* connected, shortestPath returns ok with the least total over the paths that
\* take every edge in both directions, and a node list from srcId to dstId
\* whose consecutive nodes are joined by edges with costs that sum to total.
C17_ShortestPathOptimal ==
  (probe # None /\ Val(probe).call = "shortestPath"
     /\ Connected(Val(probe).srcId, Val(probe).dstId)) =>
       /\ OptimalPath(Val(probe).result, Live, Val(probe).srcId, Val(probe).dstId)
       /\ OptimalPath(Val(probe).undirected, Live, Val(probe).srcId, Val(probe).dstId)

\* the same for the copy of the module that enters an edge at both ends
C17_UndirectedCopyOptimal ==
  (probe # None /\ Val(probe).call = "shortestPath"
     /\ Connected(Val(probe).srcId, Val(probe).dstId)) =>
       OptimalPath(Val(probe).undirected, Live, Val(probe).srcId, Val(probe).dstId)

\* what C18 says of a result r for the ids x, y
FailsExactly(r, x, y) ==
  /\ r.ok = Connected(x, y)
  /\ (x = y /\ Connected(x, y)) =>
       (r.total = 0 /\ r.nodes = <<x>> /\ r.edges = <<>>)

\* C18: shortest path failure results.  shortestPath returns ok false exactly
\* when srcId or dstId is no node's id or no path connects them; for srcId
\* equal to dstId and a node it returns total 0, the one node and no edges.
C18_ShortestPathFailure ==
  (probe # None /\ Val(probe).call = "shortestPath") =>
     /\ FailsExactly(Val(probe).result, Val(probe).srcId, Val(probe).dstId)
     /\ FailsExactly(Val(probe).undirected, Val(probe).srcId, Val(probe).dstId)

\* the same for the copy of the module that enters an edge at both ends
C18_UndirectedCopyFailure ==
  (probe # None /\ Val(probe).call = "shortestPath") =>
     FailsExactly(Val(probe).undirected, Val(probe).srcId, Val(probe).dstId)

\* the ids of nodes, other than id, that an edge of g leaves id for
Targets(g, id) ==
  {g.links[m].target : m \in {m \in 1..Len(g.links) :
      /\ g.links[m].source = id
      /\ g.links[m].target # id
      /\ \E i \in 1..Len(g.nodes) : g.nodes[i].id = g.links[m].target}}

\* the ranks next follow from the ranks pr by one iteration with damping
\* dNum / 20: every node gets (1 - d) / N, an equal part of d times the rank of
\* the nodes without targets, and from every node it is a target of d times
\* that node's rank divided by the number of its targets
IterationOf(g, dNum, pr, next) ==
  LET N == Len(g.nodes)
      id(i) == g.nodes[i].id
      RECURSIVE sum(_, _)
      sum(f, i) == IF i = 0 THEN 0 ELSE f[i] + sum(f, i - 1)
      \* the factor by which the denominator has grown
      K == next.den \div pr.den
      dangling == [i \in 1..N |-> IF Targets(g, id(i)) = {} THEN pr.num[i] ELSE 0]
      fromSource(j) == [i \in 1..N |->
                          IF id(j) \in Targets(g, id(i))
                            THEN ((K \div 20) * dNum * pr.num[i]) \div Cardinality(Targets(g, id(i)))
                          ELSE 0]
  IN /\ next.den = K * pr.den /\ K % (20 * N) = 0
     /\ \A i \in 1..N : Targets(g, id(i)) # {} =>
          ((K \div 20) * dNum * pr.num[i]) % Cardinality(Targets(g, id(i))) = 0
     /\ \A j \in 1..N :
          next.num[j] = (K \div (20 * N)) * ((20 - dNum) * pr.den + dNum * sum(dangling, N))
                        + sum(fromSource(j), N)

\* C19: PageRank mass conservation.  The loop runs at most maxIter iterations;
\* after every one the scores sum to 1, and every iteration splits a node's
\* rank equally among its distinct targets other than itself and spreads the
\* rank of the nodes without such a target over all nodes.
C19_PageRankMass ==
  (probe # None /\ Val(probe).call = "pageRank") =>
     LET h == Val(probe).result.history
         N == Len(Live.nodes)
         RECURSIVE sum(_, _)
         sum(f, i) == IF i = 0 THEN 0 ELSE f[i] + sum(f, i - 1)
         before(k) == IF k = 1 THEN [num |-> [i \in 1..N |-> 1], den |-> N] ELSE h[k - 1]
     IN /\ Len(h) >= 1 /\ Len(h) <= Val(probe).maxIter
        /\ \A k \in 1..Len(h) :
             /\ sum(h[k].num, N) = h[k].den
             /\ IterationOf(Live, Val(probe).d, before(k), h[k])
        /\ \A i \in 1..N : /\ Val(probe).result.scores[i].num = Last(h).num[i]
                            /\ Val(probe).result.scores[i].den = Last(h).den

\* two iterations on a graph with a self-loop, an edge to an unknown id and
\* two nodes without targets gave scores that differ
C19_Witness ==
  /\ probe # None /\ Val(probe).call = "pageRank"
  /\ LiveLinks(State) = <<NewLink("a", "a", None), NewLink("a", "z", None), NewLink("a", "b", None)>>
  /\ Len(Val(probe).result.history) = 2
  /\ Val(probe).result.scores[1].num < Val(probe).result.scores[2].num

\* the (source, target) pairs of the edges of g whose endpoints are both nodes
KnownEdges(g) ==
  LET ids == {g.nodes[i].id : i \in 1..Len(g.nodes)}
  IN {<<g.links[m].source, g.links[m].target>> : m \in {m \in 1..Len(g.links) :
        g.links[m].source \in ids /\ g.links[m].target \in ids}}

\* the number of edges, at most k, of the longest directed walk over E that ends at y
RECURSIVE LongestTo(_, _, _)
LongestTo(E, y, k) ==
  LET ins == {e \in E : e[2] = y}
      lens == {1 + LongestTo(E, e[1], k - 1) : e \in ins}
  IN IF k = 0 \/ ins = {} THEN 0 ELSE CHOOSE m \in lens : \A x \in lens : m >= x

\* no directed cycle: no walk has as many edges as there are nodes
IsDag(g) == \A i \in 1..Len(g.nodes) : LongestTo(KnownEdges(g), g.nodes[i].id, Len(g.nodes)) < Len(g.nodes)

\* C20: Kahn layering on acyclic input.  When the edges between nodes form a
\* DAG, computeHierarchyLayers gives every node the layer 1 + the length of the
\* longest directed path that ends at it (1 for a node no edge enters), and
\* every edge goes from a layer to a greater one.
C20_KahnLayers ==
  (probe # None /\ Val(probe).call = "computeHierarchyLayers" /\ IsDag(Live)) =>
     LET layer == Val(probe).result
         at(id) == layer[CHOOSE i \in 1..Len(Live.nodes) : Live.nodes[i].id = id]
     IN /\ \A i \in 1..Len(Live.nodes) :
             layer[i] = Some(1 + LongestTo(KnownEdges(Live), Live.nodes[i].id, Len(Live.nodes)))
        /\ \A e \in KnownEdges(Live) : Val(at(e[1])) < Val(at(e[2]))

\* the edges a -> c, b -> c, a -> b were layered a 1, b 2, c 3
C20_Witness ==
  /\ probe # None /\ Val(probe).call = "computeHierarchyLayers"
  /\ LiveLinks(State) = <<NewLink("a", "c", None), NewLink("b", "c", None), NewLink("a", "b", None)>>
  /\ Val(probe).result = <<Some(1), Some(2), Some(3)>>

\* what a save would send of a graph value: the nodes without the bookkeeping of
\* a gesture and without the pins, the links, type and title
Content(g) ==
  [nodes |-> [i \in 1..Len(g.nodes) |->
                [id |-> g.nodes[i].id, label |-> g.nodes[i].label,
                 description |-> g.nodes[i].description,
                 x |-> g.nodes[i].x, y |-> g.nodes[i].y, layer |-> g.nodes[i].layer]],
   links |-> g.links, type |-> g.type, title |-> g.title]

\* the step is an undo or a redo: a snapshot moved between the stacks, none was captured
HistoryMove == opCount' = opCount /\ Len(redoStack') # Len(redoStack)

\* C24: loading never races with editing.  While the load request is in flight
\* no step changes nodes, links, type or title or captures history; the step
\* that loads leaves the 'initial' snapshot as the only entry of the undo
\* stack; and after it no step, an undo least of all, changes type or title
\* to those of the page before the load.
C24_LoadDoesNotRace ==
  [][/\ (request # None /\ request' # None) =>
          (Content(Live') = Content(Live) /\ undoStack' = undoStack)
     /\ (request # None /\ request' = None) =>
          (Len(undoStack') = 1 /\ UndoValues'[1] = Live')
     /\ request = None => (graph'.type = graph.type /\ graph'.title = graph.title)]_vars

\* the loaded hierarchy graph titled "T" was replaced by what the page held
\* before the load: a force graph without title
C24_PreLoadContentRestored ==
  ~(request = None /\ graph.type = "force" /\ graph.title = ""
      /\ \E i \in 1..Len(redoStack) : RedoValues[i].type = "hierarchy")

\* C25: viewer access is read-only.  Once the graph is loaded with access
\* viewer (the Save button is disabled) no step that is not an undo or a redo
\* changes the content of nodes, links, type or title.
C25_ViewerReadOnly ==
  [][(saveBtn.disabled /\ ~HistoryMove) => Content(Live') = Content(Live)]_vars

\* id, x and y of the nodes of a list, in order
Positions(nodes) == [i \in 1..Len(nodes) |-> <<nodes[i].id, nodes[i].x, nodes[i].y>>]

C22_SavedPositionsKept ==
  [][LET free == graph.type \in {"force", "circle", "grid"}
         loads == request # None /\ request' = None
         data == Val(request).data
         placed(n) == isFinite(n.x) /\ isFinite(n.y)
     IN /\ (free /\ allHavePositions(State)) =>
             Positions(LiveNodes(applyLayoutForType(State))) = Positions(LiveNodes(State))
        /\ (loads /\ data.type \in {"force", "circle", "grid"}
              /\ \A i \in 1..Len(data.nodes) : placed(data.nodes[i])) =>
             Positions(LiveNodes(State')) = Positions(data.nodes)
        /\ (loads /\ data.type = "force") =>
             /\ Len(graph'.nodes) = Len(data.nodes)
             /\ \A i \in 1..Len(data.nodes) :
                  /\ placed(LiveNodes(State')[i])
                  /\ placed(data.nodes[i]) =>
                       Positions(LiveNodes(State'))[i] = Positions(data.nodes)[i]
        /\ (free /\ lastCall' = Some(<<"onDeleteNode">>)) =>
             Positions(LiveNodes(State')) =
               Positions(LiveNodes([State EXCEPT !.graph.nodes = SelectSeq(@, LAMBDA a : a # selectedNode)]))]_vars

\* in a grid graph laid out for two nodes the first node was deleted and the
\* second is still in its cell, not in the cell of a grid of one
C22_Witness ==
  /\ graph.type = "grid" /\ lastCall = Some(<<"onDeleteNode">>)
  /\ Len(graph.nodes) = 1
  /\ nodeObj[graph.nodes[1]].id = "b"
  /\ nodeObj[graph.nodes[1]].x = Some(220) /\ nodeObj[graph.nodes[1]].y = Some(140)

\* C23: grid layout.  layoutGrid places node i (list order, from 0) at column
\* i mod c and row floor(i / c) with c = ceil(sqrt(N)) and spacing 40: no two
\* nodes share a position, there are at most c rows, and the block of occupied
\* cells has the canvas center as its center, horizontally and vertically.
C23_GridCentered ==
  (probe # None /\ Val(probe).call = "layoutGrid" /\ Len(Val(probe).result) > 0) =>
     LET ns == Val(probe).result
         N == Len(ns)
         c == CHOOSE k \in 1..N : k * k >= N /\ (k - 1) * (k - 1) < N
         xs == {Val(ns[i].x) : i \in 1..N}
         ys == {Val(ns[i].y) : i \in 1..N}
     IN /\ \A i \in 1..N :
             /\ Val(ns[i].x) = MinOf(xs) + ((i - 1) % c) * 40
             /\ Val(ns[i].y) = MinOf(ys) + ((i - 1) \div c) * 40
        /\ \A i, j \in 1..N : i # j => <<ns[i].x, ns[i].y>> # <<ns[j].x, ns[j].y>>
        /\ Cardinality(ys) <= c
        /\ MinOf(xs) + Greatest(xs) = canvas.width
        /\ MinOf(ys) + Greatest(ys) = canvas.height

\* C29: hierarchy layout rows.  After layoutHierarchy every node has a layer
\* from 1 on and the y 40 + (layer - 1) * gapY, where gapY is the available
\* height (the canvas height less 80) divided by the number of rows less one
\* and clamped to [80, 140], the number of rows being the greatest layer; nodes
\* of one layer share their y, a smaller layer has a strictly smaller y; a
\* node that had a finite x keeps it; and no layer is changed unless some node
\* lacked a finite layer.
C29_HierarchyRows ==
  (probe # None /\ Val(probe).call = "layoutHierarchy") =>
     LET before == LiveNodes(State)
         after == Val(probe).result
         N == Len(after)
         rows == Greatest({Val(after[i].layer) : i \in 1..N})
         raw == (canvas.height - 80) \div (rows - 1)
         gapY == IF raw < 80 THEN 80 ELSE IF raw > 140 THEN 140 ELSE raw
     IN /\ N = Len(before)
        /\ \A i \in 1..N :
             /\ after[i].id = before[i].id
             /\ isFinite(after[i].layer) /\ Val(after[i].layer) >= 1
             /\ isFinite(after[i].x)
             /\ after[i].y = Some(40 + (Val(after[i].layer) - 1) * (IF rows > 1 THEN gapY ELSE 0))
             /\ isFinite(before[i].x) => after[i].x = before[i].x
        /\ \A i, j \in 1..N :
             /\ Val(after[i].layer) = Val(after[j].layer) => after[i].y = after[j].y
             /\ Val(after[i].layer) < Val(after[j].layer) => Val(after[i].y) < Val(after[j].y)
        /\ (\A i \in 1..N : isFinite(before[i].layer)) =>
             \A i \in 1..N : after[i].layer = before[i].layer

\* on the lower canvas the nodes of layers 1, 3 and 2 were put on rows 80
\* apart; b kept its x, c kept its x and lost its saved y
C29_Witness ==
  /\ probe # None /\ Val(probe).call = "layoutHierarchy"
  /\ canvas.height = 200
  /\ Positions(LiveNodes(State)) = <<<<"a", None, None>>, <<"b", Some(70), None>>, <<"c", Some(70), Some(55)>>>>
  /\ Positions(Val(probe).result) = <<<<"a", Some(200), Some(40)>>, <<"b", Some(70), Some(200)>>, <<"c", Some(70), Some(120)>>>>
  /\ [i \in 1..3 |-> Val(probe).result[i].layer] = <<Some(1), Some(3), Some(2)>>

\* the user owns the document g or has a share entry with role editor in it
MayWrite(user, g) ==
  \/ g.ownerUserId = user.uid
  \/ [username |-> user.username, role |-> "editor"] \in {g.shares[i] : i \in 1..Len(g.shares)}

\* C26: backend write authorization.  A PUT by a user who is neither the owner
\* of the stored document nor has a share entry with role editor in it (a user
\* of the legacy list only, a user whose share is viewer) is answered 403
\* forbidden_readonly and changes nothing; a step that changes the document is
\* a step of a PUT whose user was owner or editor in the document the handler
\* read, or a step of a share or delete request of the owner.
C26_WriteAuthorization ==
  [][LET req == Val(lastCall')
         mine == {k \in 1..Len(awaiting) : awaiting[k].req = req}
     IN /\ (opCount' = opCount + 1 /\ req.method = "PUT" /\ Graphs # None
              /\ ~MayWrite(req.user, Val(Graphs))) =>
             /\ probe' = Some([request |-> req, status |-> 403, body |-> "forbidden_readonly"])
             /\ Graphs' = Graphs
             /\ awaiting' = awaiting
        /\ Graphs' # Graphs =>
             /\ mine # {}
             /\ req.method = "PUT" => \A k \in mine : MayWrite(req.user, awaiting[k].graph)
             /\ req.method # "PUT" => req.user.uid = Val(Graphs).ownerUserId]_vars

\* ann was an editor, the owner shared the graph with her again as a viewer,
\* and her PUT was refused: the document is as it was stored
C26_Witness ==
  /\ awaiting = <<>>
  /\ probe # None /\ Val(probe).status = 403 /\ Val(probe).body = "forbidden_readonly"
  /\ Val(probe).request.method = "PUT" /\ Val(probe).request.user = Ann
  /\ Graphs # None
  /\ Val(Graphs).shares = <<[username |-> "bob", role |-> "viewer"], [username |-> "ann", role |-> "viewer"]>>
  /\ Val(Graphs).nodes = StoredNodes /\ Val(Graphs).title = "T"

\* a node of the list with the id, None when there is none
StoredAt(nodes, id) ==
  LET hits == {i \in 1..Len(nodes) : nodes[i].id = id}
  IN IF hits = {} THEN None ELSE Some(nodes[Greatest(hits)])

\* C27: positions-only save is a merge.  When the updateOne of a PUT with
\* nodes and without links is applied to the document the handler read, every
\* stored node is still stored with its label and description, a node the
\* body mentions has the x, y and layer of the body, a node it does not
\* mention is as it was, and the links are as they were; the updateOne of a
\* PUT with nodes and links leaves the nodes and the links of the body.
C27_PositionsMerge ==
  [][\A k \in 1..Len(awaiting) :
       (/\ awaiting[k].at = "updateOne"
        /\ Len(awaiting') = Len(awaiting) /\ awaiting'[k].at = "findOne"
        /\ Graphs = Some(awaiting[k].graph)
        /\ awaiting[k].req.body.nodes # None) =>
          LET body == awaiting[k].req.body
              old == Val(Graphs)
              new == Val(Graphs')
              sent == Val(body.nodes)
          IN IF body.links = None
               THEN /\ new.links = old.links
                    /\ \A i \in 1..Len(old.nodes) :
                         LET o == old.nodes[i]
                             n == StoredAt(new.nodes, o.id)
                             b == StoredAt(sent, o.id)
                         IN /\ n # None
                            /\ Val(n).label = o.label
                            /\ Val(n).description = o.description
                            /\ b = None => Val(n) = o
                            /\ b # None => /\ Val(n).x = Val(b).x
                                           /\ Val(n).y = Val(b).y
                                           /\ Val(n).layer = Val(b).layer
               ELSE new.nodes = sent /\ new.links = Val(body.links)]_vars

\* C28: the snapshot of a drag is taken before any in-place change of the
\* gesture.  An undo right after a completed drag that moved leaves the graph
\* as it was when the gesture began: the same nodes with the same fields and
\* values, x, y and layer among them, and no bookkeeping field of the gesture.
C28_UndoRestoresPreDrag ==
  [][(/\ gesture # None /\ dragSubject = 0
      /\ Val(gesture).moved
      /\ Len(undoStack') = Len(undoStack) - 1
      /\ Len(redoStack') = Len(redoStack) + 1) =>
        GraphValue(State)' = Val(gesture).before]_vars

\* C30: the cached layer geometry is never stale.  When a drag ends or a node
\* is placed in a hierarchy graph (the steps that read layerState or call
\* yForLayer), gapY is the available height of the canvas divided by the rows
\* less one, clamped to [80, 140], and Lmax is the number of rows, the rows
\* being the greatest layer of a node of the graph as it is then.
C30_LayerStateFresh ==
  [][LET layers == {Val(nodeObj[graph.nodes[i]].layer) :
                      i \in {j \in 1..Len(graph.nodes) : isFinite(nodeObj[graph.nodes[j]].layer)}}
         rows == Greatest(layers \cup {1})
         raw == (canvas.height - 80) \div (rows - 1)
         gapY == IF rows = 1 \/ raw > 140 THEN 140 ELSE IF raw < 80 THEN 80 ELSE raw
         reads == \/ dragSubject # 0 /\ dragSubject' = 0
                  \/ pendingNodePlacement # None /\ Len(graph'.nodes) > Len(graph.nodes)
     IN (graph.type = "hierarchy" /\ reads) =>
          (layerState.gapY = gapY /\ layerState.Lmax = rows)]_vars

\* the bodies of the saves in flight, in the order they were sent
InFlight == [k \in 1..Len(awaiting) |-> awaiting[k].req.body]

\* C31: a save sends a settled snapshot.  The body a click on Save sends holds
\* the nodes (id, label, description, x, y, and the layer in a hierarchy
\* graph) and the links of the graph as they are at the click; no step taken
\* while the request is in flight changes a body in flight; and the step of
\* the response changes nothing of the graph, the history or the selection.
C31_SaveSendsSnapshot ==
  [][/\ Len(awaiting') > Len(awaiting) =>
          /\ InFlight' = Append(InFlight,
               [nodes |-> [i \in 1..Len(Live.nodes) |->
                             [id |-> Live.nodes[i].id, label |-> Live.nodes[i].label,
                              description |-> Live.nodes[i].description,
                              x |-> Live.nodes[i].x, y |-> Live.nodes[i].y,
                              layer |-> IF Live.type = "hierarchy" THEN Live.nodes[i].layer ELSE None]],
                links |-> Live.links])
          /\ Live' = Live
     /\ Len(awaiting') = Len(awaiting) => InFlight' = InFlight
     /\ Len(awaiting') < Len(awaiting) =>
          /\ \E k \in 1..Len(awaiting) :
               InFlight' = [i \in 1..(Len(awaiting) - 1) |-> InFlight[IF i < k THEN i ELSE i + 1]]
          /\ Live' = Live /\ UndoValues' = UndoValues /\ RedoValues' = RedoValues
          /\ selectedNode' = selectedNode /\ selectedIds' = selectedIds]_vars

\* node b was dragged to (100, 300), Save was clicked and the drag undone while
\* the request was in flight: the body has b at y 300, the graph has it at 180
C31_Witness ==
  /\ Len(awaiting) = 1 /\ graph.type = "force"
  /\ Len(redoStack) = 1 /\ dragSubject = 0
  /\ Len(graph.nodes) = 2 /\ Len(InFlight[1].nodes) = 2
  /\ InFlight[1].nodes[2].y = Some(300)
  /\ nodeObj[graph.nodes[2]].y = Some(180)

\* C32: referential integrity of edges.  In every state reached from a loaded
\* graph whose edges join existing nodes, the source and the target of every
\* edge of graph.links are ids of nodes of graph.nodes.
C32_EdgesJoinNodes ==
  \A i \in 1..Len(graph.links) :
    /\ \E j \in 1..Len(graph.nodes) : nodeObj[graph.nodes[j]].id = linkObj[graph.links[i]].source
    /\ \E j \in 1..Len(graph.nodes) : nodeObj[graph.nodes[j]].id = linkObj[graph.links[i]].target

\* C33: the selection never goes stale.  Whenever selectedNode is not null it
\* is one of the objects of graph.nodes.
C33_SelectionInGraph ==
  selectedNode # 0 => \E j \in 1..Len(graph.nodes) : graph.nodes[j] = selectedNode

\* every node of the graph lies on the row of its layer under the current layerState
OnRows ==
  \A i \in 1..Len(graph.nodes) :
    LET n == nodeObj[graph.nodes[i]]
    IN isFinite(n.layer) /\ n.y = Some(yForLayer(State, Val(n.layer)))

\* C34: row consistency in hierarchy graphs.  After every completed add node,
\* edit, drag end, delete node, undo or redo each node's y is
\* yForLayer(node.layer) under the current layer state.
C34_RowConsistency ==
  (graph.type = "hierarchy" /\ dragSubject = 0) => OnRows

\* C35: dedupe never drops a non-duplicate.  For arbitrary string ids, ids that
\* contain "->" included, dedupeLinksInPlace removes an edge only if a later edge
\* of the list has the same source and the same target: every edge without such
\* a later edge is still in the list.
C35_DedupeDropsOnlyDuplicates ==
  (probe # None /\ Val(probe).call = "dedupeLinksInPlace") =>
     LET ls == LiveLinks(State)
     IN \A i \in 1..Len(ls) :
          (\A j \in (i + 1)..Len(ls) : ls[j].source # ls[i].source \/ ls[j].target # ls[i].target)
            => \E k \in 1..Len(Val(probe).result) : Val(probe).result[k] = ls[i]

\* the handler that returned r pushed no snapshot and left both stacks as they are
HistoryUntouched(r) ==
  r.captures = 0 /\ r.undoStack = undoStack /\ r.redoStack = redoStack

\* C36: a rejected or no-op request leaves the history untouched.  Whenever the
\* page is idle, an Apply edit that reports an error and changes nothing, an
\* Add or update edge or a Remove edge that reports an error, and an Add or
\* update edge that is silently ignored (the pair exists and the graph is no
\* force graph or no weight is given) push no snapshot and leave the redo stack.
C36_RejectedLeavesHistory ==
  Idle =>
    /\ \A id \in IdInputs, t \in Texts, L \in LayerInputs :
         LET r == onApplyEdit(State, id, t[1], t[2], L)
         IN (r.alert # "" /\ GraphValue(r) = GraphValue(State)) => HistoryUntouched(r)
    /\ \A e \in EdgeInputs :
         LET r == onAddOrUpdateEdge(State, e[1], e[2], e[3])
         IN (\/ r.alert # ""
             \/ /\ findEdgeIndexByIds(State, e[1], e[2]) # 0
                /\ (graph.type # "force" \/ e[3] = ""))
              => HistoryUntouched(r)
    /\ \A e \in RemoveInputs :
         LET r == onRemoveEdge(State, e[1], e[2])
         IN r.alert # "" => HistoryUntouched(r)

\* C37: computeHierarchyLayers terminates on every finite input, with cycles,
\* self-loops, duplicate edges and edges to unknown ids among them: on every
\* graph the while loop ends after at most one round per node, no id leaves the
\* queue twice, and on return every node has an integer layer that is at least 1.
C37_LayeringTerminates ==
  /\ probe = None =>
       Len(shiftedIds(LiveNodes(State), LiveLinks(State))) <= Len(graph.nodes)
  /\ (probe # None /\ Val(probe).call = "computeHierarchyLayers") =>
       LET r == Val(probe)
       IN /\ \A i, j \in 1..Len(r.shifted) : i # j => r.shifted[i] # r.shifted[j]
          /\ Len(r.result) = Len(graph.nodes)
          /\ \A i \in 1..Len(r.result) :
               isFinite(r.result[i]) /\ Val(r.result[i]) \in Nat /\ Val(r.result[i]) >= 1

\* the call returned for the cycle a -> b -> a with an edge to the unknown id z:
\* only c left the queue, a got layer 1 and b layer 2
C37_Witness ==
  /\ probe # None /\ Val(probe).call = "computeHierarchyLayers"
  /\ LiveLinks(State) = <<NewLink("a", "b", None), NewLink("b", "a", None), NewLink("a", "z", None)>>
  /\ Val(probe).shifted = <<"c">>
  /\ Val(probe).result = <<Some(1), Some(2), Some(1)>>

\* the callbacks handed to requestAnimationFrame that have not run yet
FramesPending == Len(SelectSeq(awaiting, LAMBDA c : c.at = "requestAnimationFrame"))

\* C38: draw scheduling.  At most one frame callback is pending at any time,
\* however often scheduleDraw is called before the frame; and, the frames being
\* run, every call of scheduleDraw is followed by the start of a draw, also
\* after a draw that threw and while render.js is being imported.
C38_DrawScheduling ==
  /\ [](FramesPending <= 1)
  /\ (lastCall = Some(<<"scheduleDraw">>)) ~> (\E threw \in BOOLEAN : lastCall = Some(<<"draw", threw>>))

\* a draw has started after four calls of scheduleDraw and after a draw that
\* threw, with no frame left to run
C38_Witness ==
  /\ opCount = MaxDrawCalls
  /\ lastCall = Some(<<"draw", FALSE>>)
  /\ probe # None /\ Val(probe).earlierThrew
  /\ awaiting = <<>>

====
